---------------------------- MODULE Spec2Model ----------------------------
(***************************************************************************)
(* The RAP specification package (rap_spec) and its two driver scripts:    *)
(*   - the typed model definitions (pydantic BaseModel subclasses), as     *)
(*     class tables;                                                       *)
(*   - instance validation, Model.model_validate(document), as the         *)
(*     recursive operator Validate over JSON values;                       *)
(*   - schema generation, scripts/generate_schemas.py;                     *)
(*   - the example validation driver, scripts/validate_examples.py.        *)
(*                                                                         *)
(* JSON values are tagged records, each kind with its own payload field.   *)
(* A number carries its value in                                           *)
(* hundredths (Num(95) is 0.95, Num(18000) is 180), so that the bounds of  *)
(* the model (0, 1, 180) and the values around them are exact integers.    *)
(***************************************************************************)
EXTENDS Integers, Sequences, FiniteSets, TLC

VARIABLES
    \* instance validation: one model_validate call
    vcls,        \* the model class model_validate is called on
    vdoc,        \* the parsed JSON document handed to it
    vpc,         \* "call" before the call, "returned" after it
    vres,        \* the outcome of the call
    \* post_process_schema as a function: one call
    pschema,     \* the schema dict passed in
    pid,         \* the schema_id passed in
    ppc,         \* "call" before the call, "returned" after it
    pres,        \* the returned schema
    \* the generation driver, generate_schemas.main()
    gpc,         \* where main() is
    gi,          \* which of the nine generate_schema calls is running
    gschema,     \* generate_schema's local `schema`
    dirs,        \* the directories that exist under the repository root
    files,       \* the content of each schema file on disk
    gout,        \* the lines printed so far
    grun,        \* which run of main() this is, the first or the second
    gfirst,      \* the schema files as the first run left them
    \* the validation driver, validate_examples.main()
    examples,    \* the files under the examples directory and what is in them
    dpc,         \* where main() is
    example_files, \* main's local `example_files`, as rglob returned it
    dsorted,     \* sorted(example_files), the list the for loop walks
    di,          \* the position of the loop in it
    ddata,       \* validate_research_product's local `data`
    derr,        \* the exception caught, `e`
    valid_count,
    invalid_count,
    dout,        \* the lines printed so far
    dret,        \* main's return value, the exit status
    \* generate_schema calls made on their own, one per target
    opc,         \* where the call for each target stands
    oschema,     \* each call's local variable schema
    oserial      \* TRUE when the calls are made one after another

vvars == <<vcls, vdoc, vpc, vres>>
pvars == <<pschema, pid, ppc, pres>>
gvars == <<gpc, gi, gschema, dirs, files, gout, grun, gfirst>>
dvars == <<examples, dpc, example_files, dsorted, di, ddata, derr, valid_count, invalid_count, dout, dret>>
ovars == <<opc, oschema, oserial>>
vars == <<vcls, vdoc, vpc, vres, pschema, pid, ppc, pres, gpc, gi, gschema, dirs, files, gout, grun, gfirst,
          examples, dpc, example_files, dsorted, di, ddata, derr, valid_count, invalid_count, dout, dret,
          opc, oschema, oserial>>

---------------------------------------------------------------------------
(* JSON values *)

Null == [k |-> "null"]
Bool(b) == [k |-> "bool", b |-> b]
Num(h) == [k |-> "num", n |-> h]
Str(s) == [k |-> "str", s |-> s]
Lst(q) == [k |-> "list", items |-> q]
Obj(f) == [k |-> "obj", fields |-> f]

EmptyObj == Obj([x \in {} |-> Null])

\* The object o with key key set to value val (added or overwritten).
ObjWith(o, key, val) ==
    Obj([x \in (DOMAIN o.fields) \cup {key} |-> IF x = key THEN val ELSE o.fields[x]])

\* The object o without key key.
ObjWithout(o, key) ==
    Obj([x \in (DOMAIN o.fields) \ {key} |-> o.fields[x]])

HasKey(o, key) == o.k = "obj" /\ key \in DOMAIN o.fields

---------------------------------------------------------------------------
(* Strings *)

Char(s, i) == SubSeq(s, i, i)

\* Python's `sub in s` on strings.
StrContains(sub, s) ==
    \E i \in 1..(Len(s) - Len(sub) + 1) : SubSeq(s, i, i + Len(sub) - 1) = sub

StartsWith(s, prefix) ==
    Len(s) >= Len(prefix) /\ SubSeq(s, 1, Len(prefix)) = prefix

Digits == {"0", "1", "2", "3", "4", "5", "6", "7", "8", "9"}
Lower == {"a", "b", "c", "d", "e", "f", "g", "h", "i", "j", "k", "l", "m",
          "n", "o", "p", "q", "r", "s", "t", "u", "v", "w", "x", "y", "z"}
Upper == {"A", "B", "C", "D", "E", "F", "G", "H", "I", "J", "K", "L", "M",
          "N", "O", "P", "Q", "R", "S", "T", "U", "V", "W", "X", "Y", "Z"}
Space == {" "}

DigitVal(c) ==
    CASE c = "0" -> 0 [] c = "1" -> 1 [] c = "2" -> 2 [] c = "3" -> 3
      [] c = "4" -> 4 [] c = "5" -> 5 [] c = "6" -> 6 [] c = "7" -> 7
      [] c = "8" -> 8 [] c = "9" -> 9

AllIn(s, chars) == \A i \in 1..Len(s) : Char(s, i) \in chars

AllDigits(s) == Len(s) > 0 /\ AllIn(s, Digits)

RECURSIVE DigitsValue(_)
DigitsValue(s) ==
    IF Len(s) = 0 THEN 0
    ELSE DigitsValue(SubSeq(s, 1, Len(s) - 1)) * 10 + DigitVal(Char(s, Len(s)))

\* Positions of character c in s.
Positions(s, c) == {i \in 1..Len(s) : Char(s, i) = c}

\* A string read as a float, in hundredths: [-]digits[.d[d]].  Other spellings
\* a float parser knows (exponents, "inf", more than two decimals) are not among
\* the strings of the documents below and read as failures here.
ParseFloat(s) ==
    LET neg  == Len(s) > 0 /\ Char(s, 1) = "-"
        body == IF neg THEN SubSeq(s, 2, Len(s)) ELSE s
        sign == IF neg THEN -1 ELSE 1
        dots == Positions(body, ".")
        bad  == [ok |-> FALSE, v |-> 0]
    IN  IF dots = {}
        THEN IF AllDigits(body)
             THEN [ok |-> TRUE, v |-> sign * DigitsValue(body) * 100]
             ELSE bad
        ELSE IF Cardinality(dots) = 1
        THEN LET d  == CHOOSE i \in dots : TRUE
                 ip == SubSeq(body, 1, d - 1)
                 fp == SubSeq(body, d + 1, Len(body))
             IN  IF AllDigits(ip) /\ AllDigits(fp) /\ Len(fp) <= 2
                 THEN [ok |-> TRUE,
                       v |-> sign * (DigitsValue(ip) * 100
                                     + (IF Len(fp) = 1 THEN 10 ELSE 1) * DigitsValue(fp))]
                 ELSE bad
        ELSE bad

\* A string read as an int: [-]digits.
ParseInt(s) ==
    LET neg  == Len(s) > 0 /\ Char(s, 1) = "-"
        body == IF neg THEN SubSeq(s, 2, Len(s)) ELSE s
    IN  IF AllDigits(body)
        THEN [ok |-> TRUE, v |-> (IF neg THEN -1 ELSE 1) * DigitsValue(body) * 100]
        ELSE [ok |-> FALSE, v |-> 0]

\* HttpUrl: a string with scheme http or https and a non-empty host.
IsHttpUrl(s) ==
    \/ StartsWith(s, "http://") /\ Len(s) > Len("http://")
         /\ Char(s, Len("http://") + 1) \notin {"/", " "}
    \/ StartsWith(s, "https://") /\ Len(s) > Len("https://")
         /\ Char(s, Len("https://") + 1) \notin {"/", " "}

\* The four regular expressions of the model (Field(pattern=...)).
\* d+ . d+ ( . d+ )* with exactly n dot-separated groups of digits
DottedDigits(s, n) ==
    /\ Cardinality(Positions(s, ".")) = n - 1
    /\ Len(s) > 0 /\ Char(s, 1) # "." /\ Char(s, Len(s)) # "."
    /\ AllIn(s, Digits \cup {"."})
    /\ \A i \in 1..(Len(s) - 1) : ~(Char(s, i) = "." /\ Char(s, i + 1) = ".")

PatternMatches(pattern, s) ==
    CASE pattern = "^[A-Za-z0-9_-]+$" ->
            Len(s) > 0 /\ AllIn(s, Upper \cup Lower \cup Digits \cup {"_", "-"})
      [] pattern = "^\\d+\\.\\d+\\.\\d+$" -> DottedDigits(s, 3)
      [] pattern = "^\\d+\\.\\d+$" -> DottedDigits(s, 2)
      [] pattern = "^10\\.\\d{4,}/[\\S]+$" ->
            /\ StartsWith(s, "10.")
            /\ \E i \in 8..(Len(s) - 1) :
                  /\ Char(s, i) = "/"
                  /\ AllIn(SubSeq(s, 4, i - 1), Digits)
                  /\ \A j \in (i + 1)..Len(s) : Char(s, j) \notin Space

---------------------------------------------------------------------------
(* Type descriptors of the annotations, and Field(...) *)

TStr == [t |-> "str"]
TFloat == [t |-> "float"]
TInt == [t |-> "int"]
TBool == [t |-> "bool"]
TUrl == [t |-> "url"]
TAny == [t |-> "any"]
TLiteral(values) == [t |-> "literal", values |-> values]
TModel(cls) == [t |-> "model", cls |-> cls]
TNullable(inner) == [t |-> "nullable", inner |-> inner]
TList(item) == [t |-> "list", item |-> item]
TDict(value) == [t |-> "dict", value |-> value]
TUnion(members) == [t |-> "union", members |-> members]

\* Field(...) with no default
Required == [k |-> "required"]

\* Constraints of a Field: each one absent (<<>>) or <<value>>.
NoCons == [ge |-> <<>>, gt |-> <<>>, le |-> <<>>,
           min_length |-> <<>>, max_length |-> <<>>, pattern |-> <<>>]
Ge(n) == [NoCons EXCEPT !.ge = <<n>>]
Gt(n) == [NoCons EXCEPT !.gt = <<n>>]
GeLe(lo, hi) == [NoCons EXCEPT !.ge = <<lo>>, !.le = <<hi>>]
MinLength(n) == [NoCons EXCEPT !.min_length = <<n>>]
MinMaxLength(lo, hi) == [NoCons EXCEPT !.min_length = <<lo>>, !.max_length = <<hi>>]
Pattern(p) == [NoCons EXCEPT !.pattern = <<p>>]

FieldInfo(name, alias, default, type, cons) ==
    [name |-> name, alias |-> alias, default |-> default, type |-> type, cons |-> cons]

---------------------------------------------------------------------------
(* The model classes, one table per class, fields in declaration order    *)
(* (a subclass lists the fields of its base first, overridden in place).  *)
(* No ConfigDict of the package sets `extra` or `strict`: every class has  *)
(* pydantic's defaults, extra = "ignore" and lax (non-strict) validation.  *)

Unit ==
  [name |-> "Unit",
   doc |-> "Unit of measurement (QUDT-compatible structure).",
   populate_by_name |-> TRUE,
   json_schema_extra |-> <<>>,
   extra |-> "ignore",
   fields |-> <<
     FieldInfo("type_", "@type", Str("Unit"),
               TLiteral(<<"Unit">>), NoCons),
     FieldInfo("symbol", "symbol", Required,
               TStr, NoCons),
     FieldInfo("label", "label", Null,
               TNullable(TStr), NoCons),
     FieldInfo("uri", "uri", Null,
               TNullable(TUrl), NoCons)
   >>]

QuantityValue ==
  [name |-> "QuantityValue",
   doc |-> "A quantity with a value and unit.",
   populate_by_name |-> TRUE,
   json_schema_extra |-> <<>>,
   extra |-> "ignore",
   fields |-> <<
     FieldInfo("type_", "@type", Str("QuantityValue"),
               TLiteral(<<"QuantityValue">>), NoCons),
     FieldInfo("value", "value", Required,
               TFloat, Ge(0)),
     FieldInfo("unit", "unit", Required,
               TStr, NoCons)
   >>]

SoftwareApplication ==
  [name |-> "SoftwareApplication",
   doc |-> "Software application metadata.",
   populate_by_name |-> TRUE,
   json_schema_extra |-> <<>>,
   extra |-> "ignore",
   fields |-> <<
     FieldInfo("type_", "@type", Str("SoftwareApplication"),
               TLiteral(<<"SoftwareApplication">>), NoCons),
     FieldInfo("name", "name", Required,
               TStr, NoCons),
     FieldInfo("version", "version", Null,
               TNullable(TStr), NoCons),
     FieldInfo("url", "url", Null,
               TNullable(TUrl), NoCons)
   >>]

ProcessingStep ==
  [name |-> "ProcessingStep",
   doc |-> "A single step in the data processing pipeline.",
   populate_by_name |-> TRUE,
   json_schema_extra |-> <<>>,
   extra |-> "ignore",
   fields |-> <<
     FieldInfo("type_", "@type", Str("ProcessingStep"),
               TLiteral(<<"ProcessingStep">>), NoCons),
     FieldInfo("step_order", "stepOrder", Required,
               TInt, Ge(1)),
     FieldInfo("name", "name", Required,
               TStr, NoCons),
     FieldInfo("software_agent", "softwareAgent", Null,
               TNullable(TModel("SoftwareApplication")), NoCons),
     FieldInfo("parameters", "parameters", Null,
               TNullable(TDict(TAny)), NoCons)
   >>]

ProcessingProvenance ==
  [name |-> "ProcessingProvenance",
   doc |-> "Provenance tracking for data processing pipeline.",
   populate_by_name |-> TRUE,
   json_schema_extra |-> <<>>,
   extra |-> "ignore",
   fields |-> <<
     FieldInfo("type_", "@type", Str("ProcessingProvenance"),
               TLiteral(<<"ProcessingProvenance">>), NoCons),
     FieldInfo("was_derived_from", "wasDerivedFrom", Required,
               TDict(TAny), NoCons),
     FieldInfo("processing_steps", "processingSteps", Required,
               TList(TModel("ProcessingStep")), NoCons)
   >>]

ComputeEnvironment ==
  [name |-> "ComputeEnvironment",
   doc |-> "Computational environment information.",
   populate_by_name |-> TRUE,
   json_schema_extra |-> <<>>,
   extra |-> "ignore",
   fields |-> <<
     FieldInfo("type_", "@type", Str("ComputeEnvironment"),
               TLiteral(<<"ComputeEnvironment">>), NoCons),
     FieldInfo("container_image", "containerImage", Null,
               TNullable(TDict(TAny)), NoCons)
   >>]

CreativeWork ==
  [name |-> "CreativeWork",
   doc |-> "Creative work (for licenses).",
   populate_by_name |-> TRUE,
   json_schema_extra |-> <<>>,
   extra |-> "ignore",
   fields |-> <<
     FieldInfo("type_", "@type", Str("CreativeWork"),
               TLiteral(<<"CreativeWork">>), NoCons),
     FieldInfo("id_", "@id", Required,
               TUrl, NoCons),
     FieldInfo("name", "name", Null,
               TNullable(TStr), NoCons)
   >>]

DataDownload ==
  [name |-> "DataDownload",
   doc |-> "Distribution/download information.",
   populate_by_name |-> TRUE,
   json_schema_extra |-> <<>>,
   extra |-> "ignore",
   fields |-> <<
     FieldInfo("type_", "@type", Str("DataDownload"),
               TLiteral(<<"DataDownload">>), NoCons),
     FieldInfo("content_url", "contentUrl", Required,
               TUrl, NoCons),
     FieldInfo("encoding_format", "encodingFormat", Null,
               TNullable(TStr), NoCons),
     FieldInfo("content_size", "contentSize", Null,
               TNullable(TStr), NoCons)
   >>]

PropertyValue ==
  [name |-> "PropertyValue",
   doc |-> "Property value (used for identifiers like DOI).",
   populate_by_name |-> TRUE,
   json_schema_extra |-> <<>>,
   extra |-> "ignore",
   fields |-> <<
     FieldInfo("type_", "@type", Str("PropertyValue"),
               TLiteral(<<"PropertyValue">>), NoCons),
     FieldInfo("property_id", "propertyID", Required,
               TStr, NoCons),
     FieldInfo("value", "value", Required,
               TStr, NoCons)
   >>]

ScholarlyArticle ==
  [name |-> "ScholarlyArticle",
   doc |-> "Scholarly article citation.",
   populate_by_name |-> TRUE,
   json_schema_extra |-> <<>>,
   extra |-> "ignore",
   fields |-> <<
     FieldInfo("type_", "@type", Str("ScholarlyArticle"),
               TLiteral(<<"ScholarlyArticle">>), NoCons),
     FieldInfo("identifier", "identifier", Null,
               TNullable(TDict(TAny)), NoCons),
     FieldInfo("name", "name", Null,
               TNullable(TStr), NoCons)
   >>]

vector_data_Statistics ==
  [name |-> "Statistics",
   doc |-> "Summary statistics for the vector.",
   populate_by_name |-> TRUE,
   json_schema_extra |-> <<>>,
   extra |-> "ignore",
   fields |-> <<
     FieldInfo("mean", "mean", Null,
               TNullable(TFloat), NoCons),
     FieldInfo("median", "median", Null,
               TNullable(TFloat), NoCons),
     FieldInfo("std", "std", Null,
               TNullable(TFloat), NoCons),
     FieldInfo("min", "min", Null,
               TNullable(TFloat), NoCons),
     FieldInfo("max", "max", Null,
               TNullable(TFloat), NoCons),
     FieldInfo("count", "count", Null,
               TNullable(TInt), NoCons)
   >>]

\* VectorData with min_length=1 left out of values.
VectorData_NoMinLength ==
  [name |-> "VectorData",
   doc |-> "Schema for vector data (1D array of values).",
   populate_by_name |-> TRUE,
   json_schema_extra |-> ("$schema" :> "https://json-schema.org/draft/2020-12/schema" @@ "$id" :> "https://rap-spec.evidencepub.io/v1/schemas/data-types/vector-data.json"),
   extra |-> "ignore",
   fields |-> <<
     FieldInfo("type_", "@type", Str("VectorData"),
               TLiteral(<<"VectorData">>), NoCons),
     FieldInfo("values", "values", Required,
               TList(TFloat), NoCons),
     FieldInfo("unit", "unit", Required,
               TUnion(<<TModel("Unit"), TUrl>>), NoCons),
     FieldInfo("length", "length", Null,
               TNullable(TInt), Ge(1)),
     FieldInfo("labels", "labels", Null,
               TNullable(TList(TStr)), NoCons),
     FieldInfo("statistics", "statistics", Null,
               TNullable(TModel("vector_data_Statistics")), NoCons),
     FieldInfo("metadata", "metadata", Null,
               TNullable(TDict(TAny)), NoCons)
   >>]

VectorData ==
  [name |-> "VectorData",
   doc |-> "Schema for vector data (1D array of values).",
   populate_by_name |-> TRUE,
   json_schema_extra |-> ("$schema" :> "https://json-schema.org/draft/2020-12/schema" @@ "$id" :> "https://rap-spec.evidencepub.io/v1/schemas/data-types/vector-data.json"),
   extra |-> "ignore",
   fields |-> <<
     FieldInfo("type_", "@type", Str("VectorData"),
               TLiteral(<<"VectorData">>), NoCons),
     FieldInfo("values", "values", Required,
               TList(TFloat), MinLength(1)),
     FieldInfo("unit", "unit", Required,
               TUnion(<<TModel("Unit"), TUrl>>), NoCons),
     FieldInfo("length", "length", Null,
               TNullable(TInt), Ge(1)),
     FieldInfo("labels", "labels", Null,
               TNullable(TList(TStr)), NoCons),
     FieldInfo("statistics", "statistics", Null,
               TNullable(TModel("vector_data_Statistics")), NoCons),
     FieldInfo("metadata", "metadata", Null,
               TNullable(TDict(TAny)), NoCons)
   >>]

BaseMeasurement ==
  [name |-> "BaseMeasurement",
   doc |-> "Base schema for all measurement types.",
   populate_by_name |-> TRUE,
   json_schema_extra |-> ("$schema" :> "https://json-schema.org/draft/2020-12/schema" @@ "$id" :> "https://rap-spec.evidencepub.io/v1/schemas/measurements/base-measurement.json"),
   extra |-> "ignore",
   fields |-> <<
     FieldInfo("type_", "@type", Str("Measurement"),
               TLiteral(<<"Measurement">>), NoCons),
     FieldInfo("measurement_type", "measurementType", Required,
               TStr, NoCons),
     FieldInfo("specific_measure", "specificMeasure", Required,
               TStr, NoCons),
     FieldInfo("session", "session", Null,
               TNullable(TStr), NoCons),
     FieldInfo("unit", "unit", Null,
               TNullable(TUnion(<<TModel("Unit"), TUrl>>)), NoCons),
     FieldInfo("quantity_kind", "quantityKind", Null,
               TNullable(TUrl), NoCons)
   >>]

SpatialResolution ==
  [name |-> "SpatialResolution",
   doc |-> "Spatial resolution of the measurement.",
   populate_by_name |-> TRUE,
   json_schema_extra |-> <<>>,
   extra |-> "ignore",
   fields |-> <<
     FieldInfo("value", "value", Required,
               TFloat, Ge(0)),
     FieldInfo("unit", "unit", Required,
               TModel("Unit"), NoCons)
   >>]

FieldStrength ==
  [name |-> "FieldStrength",
   doc |-> "Magnetic field strength.",
   populate_by_name |-> TRUE,
   json_schema_extra |-> <<>>,
   extra |-> "ignore",
   fields |-> <<
     FieldInfo("value", "value", Required,
               TFloat, Ge(0)),
     FieldInfo("unit", "unit", Required,
               TModel("Unit"), NoCons)
   >>]

AcquisitionParameters ==
  [name |-> "AcquisitionParameters",
   doc |-> "MRI acquisition parameters.",
   populate_by_name |-> TRUE,
   json_schema_extra |-> <<>>,
   extra |-> "ignore",
   fields |-> <<
     FieldInfo("field_strength", "fieldStrength", Null,
               TNullable(TModel("FieldStrength")), NoCons),
     FieldInfo("scanner", "scanner", Null,
               TNullable(TStr), NoCons),
     FieldInfo("sequence", "sequence", Null,
               TNullable(TStr), NoCons),
     FieldInfo("TR", "TR", Null,
               TNullable(TFloat), Ge(0)),
     FieldInfo("TE", "TE", Null,
               TNullable(TUnion(<<TFloat, TList(TFloat)>>)), NoCons),
     FieldInfo("TI", "TI", Null,
               TNullable(TUnion(<<TFloat, TList(TFloat)>>)), NoCons),
     FieldInfo("flip_angle", "flipAngle", Null,
               TNullable(TFloat), GeLe(0, 180))
   >>]

RelaxometryMRIMeasurement ==
  [name |-> "RelaxometryMRIMeasurement",
   doc |-> "Measurement schema for MRI relaxometry data.",
   populate_by_name |-> TRUE,
   json_schema_extra |-> ("$schema" :> "https://json-schema.org/draft/2020-12/schema" @@ "$id" :> "https://rap-spec.evidencepub.io/v1/schemas/measurements/relaxometry-mri.json"),
   extra |-> "ignore",
   fields |-> <<
     FieldInfo("type_", "@type", Str("Measurement"),
               TLiteral(<<"Measurement">>), NoCons),
     FieldInfo("measurement_type", "measurementType", Str("relaxometry_mri"),
               TLiteral(<<"relaxometry_mri">>), NoCons),
     FieldInfo("specific_measure", "specificMeasure", Required,
               TStr, NoCons),
     FieldInfo("session", "session", Null,
               TNullable(TStr), NoCons),
     FieldInfo("unit", "unit", Null,
               TNullable(TUnion(<<TModel("Unit"), TUrl>>)), NoCons),
     FieldInfo("quantity_kind", "quantityKind", Null,
               TNullable(TUrl), NoCons),
     FieldInfo("anatomical_region", "anatomicalRegion", Null,
               TNullable(TStr), NoCons),
     FieldInfo("region_type", "regionType", Null,
               TNullable(TLiteral(<<"tissue_class", "anatomical_roi", "functional_roi", "voxel_wise">>)), NoCons),
     FieldInfo("vector_length", "vectorLength", Null,
               TNullable(TInt), Ge(1)),
     FieldInfo("spatial_resolution", "spatialResolution", Null,
               TNullable(TModel("SpatialResolution")), NoCons),
     FieldInfo("coordinate_system", "coordinateSystem", Null,
               TNullable(TStr), NoCons),
     FieldInfo("acquisition_parameters", "acquisitionParameters", Null,
               TNullable(TModel("AcquisitionParameters")), NoCons)
   >>]

TimeDimension ==
  [name |-> "TimeDimension",
   doc |-> "Time dimension information.",
   populate_by_name |-> TRUE,
   json_schema_extra |-> <<>>,
   extra |-> "ignore",
   fields |-> <<
     FieldInfo("length", "length", Required,
               TInt, Ge(1)),
     FieldInfo("start", "start", Null,
               TNullable(TFloat), NoCons),
     FieldInfo("end", "end", Null,
               TNullable(TFloat), NoCons)
   >>]

Dimensions ==
  [name |-> "Dimensions",
   doc |-> "Dimensions of the timeseries data.",
   populate_by_name |-> TRUE,
   json_schema_extra |-> <<>>,
   extra |-> "ignore",
   fields |-> <<
     FieldInfo("time", "time", Null,
               TNullable(TModel("TimeDimension")), NoCons)
   >>]

SamplingRate ==
  [name |-> "SamplingRate",
   doc |-> "Sampling rate of the timeseries.",
   populate_by_name |-> TRUE,
   json_schema_extra |-> <<>>,
   extra |-> "ignore",
   fields |-> <<
     FieldInfo("value", "value", Required,
               TFloat, Gt(0)),
     FieldInfo("unit", "unit", Required,
               TModel("Unit"), NoCons)
   >>]

Duration ==
  [name |-> "Duration",
   doc |-> "Total duration of the timeseries.",
   populate_by_name |-> TRUE,
   json_schema_extra |-> <<>>,
   extra |-> "ignore",
   fields |-> <<
     FieldInfo("value", "value", Required,
               TFloat, Ge(0)),
     FieldInfo("unit", "unit", Required,
               TModel("Unit"), NoCons)
   >>]

Channels ==
  [name |-> "Channels",
   doc |-> "Channel information for multi-channel timeseries.",
   populate_by_name |-> TRUE,
   json_schema_extra |-> <<>>,
   extra |-> "ignore",
   fields |-> <<
     FieldInfo("count", "count", Required,
               TInt, Ge(1)),
     FieldInfo("type_", "type", Null,
               TNullable(TStr), NoCons),
     FieldInfo("labels", "labels", Null,
               TNullable(TList(TStr)), NoCons)
   >>]

\* TimeseriesMeasurement with measurement_type left a plain str, as in BaseMeasurement.
TimeseriesMeasurement_OpenType ==
  [name |-> "TimeseriesMeasurement",
   doc |-> "Measurement schema for timeseries data.",
   populate_by_name |-> TRUE,
   json_schema_extra |-> ("$schema" :> "https://json-schema.org/draft/2020-12/schema" @@ "$id" :> "https://rap-spec.evidencepub.io/v1/schemas/measurements/timeseries.json"),
   extra |-> "ignore",
   fields |-> <<
     FieldInfo("type_", "@type", Str("Measurement"),
               TLiteral(<<"Measurement">>), NoCons),
     FieldInfo("measurement_type", "measurementType", Str("timeseries"),
               TStr, NoCons),
     FieldInfo("specific_measure", "specificMeasure", Required,
               TStr, NoCons),
     FieldInfo("session", "session", Null,
               TNullable(TStr), NoCons),
     FieldInfo("unit", "unit", Null,
               TNullable(TUnion(<<TModel("Unit"), TUrl>>)), NoCons),
     FieldInfo("quantity_kind", "quantityKind", Null,
               TNullable(TUrl), NoCons),
     FieldInfo("dimensions", "dimensions", Null,
               TNullable(TModel("Dimensions")), NoCons),
     FieldInfo("sampling_rate", "samplingRate", Null,
               TNullable(TModel("SamplingRate")), NoCons),
     FieldInfo("duration", "duration", Null,
               TNullable(TModel("Duration")), NoCons),
     FieldInfo("channels", "channels", Null,
               TNullable(TModel("Channels")), NoCons)
   >>]

\* TimeseriesMeasurement without populate_by_name in its model_config.
TimeseriesMeasurement_AliasOnly ==
  [name |-> "TimeseriesMeasurement",
   doc |-> "Measurement schema for timeseries data.",
   populate_by_name |-> FALSE,
   json_schema_extra |-> ("$schema" :> "https://json-schema.org/draft/2020-12/schema" @@ "$id" :> "https://rap-spec.evidencepub.io/v1/schemas/measurements/timeseries.json"),
   extra |-> "ignore",
   fields |-> <<
     FieldInfo("type_", "@type", Str("Measurement"),
               TLiteral(<<"Measurement">>), NoCons),
     FieldInfo("measurement_type", "measurementType", Str("timeseries"),
               TLiteral(<<"timeseries">>), NoCons),
     FieldInfo("specific_measure", "specificMeasure", Required,
               TStr, NoCons),
     FieldInfo("session", "session", Null,
               TNullable(TStr), NoCons),
     FieldInfo("unit", "unit", Null,
               TNullable(TUnion(<<TModel("Unit"), TUrl>>)), NoCons),
     FieldInfo("quantity_kind", "quantityKind", Null,
               TNullable(TUrl), NoCons),
     FieldInfo("dimensions", "dimensions", Null,
               TNullable(TModel("Dimensions")), NoCons),
     FieldInfo("sampling_rate", "samplingRate", Null,
               TNullable(TModel("SamplingRate")), NoCons),
     FieldInfo("duration", "duration", Null,
               TNullable(TModel("Duration")), NoCons),
     FieldInfo("channels", "channels", Null,
               TNullable(TModel("Channels")), NoCons)
   >>]

TimeseriesMeasurement ==
  [name |-> "TimeseriesMeasurement",
   doc |-> "Measurement schema for timeseries data.",
   populate_by_name |-> TRUE,
   json_schema_extra |-> ("$schema" :> "https://json-schema.org/draft/2020-12/schema" @@ "$id" :> "https://rap-spec.evidencepub.io/v1/schemas/measurements/timeseries.json"),
   extra |-> "ignore",
   fields |-> <<
     FieldInfo("type_", "@type", Str("Measurement"),
               TLiteral(<<"Measurement">>), NoCons),
     FieldInfo("measurement_type", "measurementType", Str("timeseries"),
               TLiteral(<<"timeseries">>), NoCons),
     FieldInfo("specific_measure", "specificMeasure", Required,
               TStr, NoCons),
     FieldInfo("session", "session", Null,
               TNullable(TStr), NoCons),
     FieldInfo("unit", "unit", Null,
               TNullable(TUnion(<<TModel("Unit"), TUrl>>)), NoCons),
     FieldInfo("quantity_kind", "quantityKind", Null,
               TNullable(TUrl), NoCons),
     FieldInfo("dimensions", "dimensions", Null,
               TNullable(TModel("Dimensions")), NoCons),
     FieldInfo("sampling_rate", "samplingRate", Null,
               TNullable(TModel("SamplingRate")), NoCons),
     FieldInfo("duration", "duration", Null,
               TNullable(TModel("Duration")), NoCons),
     FieldInfo("channels", "channels", Null,
               TNullable(TModel("Channels")), NoCons)
   >>]

research_product_DemographicData ==
  [name |-> "DemographicData",
   doc |-> "Demographic information for a participant (embedded reference).",
   populate_by_name |-> TRUE,
   json_schema_extra |-> <<>>,
   extra |-> "ignore",
   fields |-> <<
     FieldInfo("age", "age", Null,
               TNullable(TDict(TAny)), NoCons),
     FieldInfo("sex", "sex", Null,
               TNullable(TLiteral(<<"M", "F", "other", "unknown">>)), NoCons),
     FieldInfo("group", "group", Null,
               TNullable(TStr), NoCons)
   >>]

ParticipantReference ==
  [name |-> "ParticipantReference",
   doc |-> "Reference to a research participant.",
   populate_by_name |-> TRUE,
   json_schema_extra |-> <<>>,
   extra |-> "ignore",
   fields |-> <<
     FieldInfo("type_", "@type", Str("Participant"),
               TLiteral(<<"Participant">>), NoCons),
     FieldInfo("id_", "@id", Required,
               TUrl, NoCons),
     FieldInfo("identifier", "identifier", Required,
               TStr, NoCons),
     FieldInfo("demographic_data", "demographicData", Null,
               TNullable(TModel("research_product_DemographicData")), NoCons)
   >>]

\* ResearchProduct with participant declared Optional, default None.
ResearchProduct_OptionalParticipant ==
  [name |-> "ResearchProduct",
   doc |-> "A processed, analysis-ready research data product.",
   populate_by_name |-> TRUE,
   json_schema_extra |-> ("$schema" :> "https://json-schema.org/draft/2020-12/schema" @@ "$id" :> "https://rap-spec.evidencepub.io/v1/schemas/research-product.json"),
   extra |-> "ignore",
   fields |-> <<
     FieldInfo("context", "@context", Required,
               TUnion(<<TLiteral(<<"https://rap-spec.evidencepub.io/v1/context">>), TDict(TAny)>>), NoCons),
     FieldInfo("type_", "@type", Str("ResearchProduct"),
               TLiteral(<<"ResearchProduct">>), NoCons),
     FieldInfo("id_", "@id", Required,
               TUrl, NoCons),
     FieldInfo("identifier", "identifier", Null,
               TNullable(TModel("PropertyValue")), NoCons),
     FieldInfo("product_type", "productType", Required,
               TLiteral(<<"processed_timeseries", "processed_scalar", "processed_image", "processed_spatial", "processed_categorical", "processed_vector">>), NoCons),
     FieldInfo("processing_level", "processingLevel", Required,
               TLiteral(<<"raw", "preprocessed", "analysis_ready", "aggregated">>), NoCons),
     FieldInfo("data", "data", Null,
               TNullable(TModel("VectorData")), NoCons),
     FieldInfo("participant", "participant", Null,
               TNullable(TModel("ParticipantReference")), NoCons),
     FieldInfo("measurement", "measurement", Required,
               TUnion(<<TModel("RelaxometryMRIMeasurement"), TModel("TimeseriesMeasurement")>>), NoCons),
     FieldInfo("provenance", "provenance", Null,
               TNullable(TModel("ProcessingProvenance")), NoCons),
     FieldInfo("compute_environment", "computeEnvironment", Null,
               TNullable(TModel("ComputeEnvironment")), NoCons),
     FieldInfo("license", "license", Null,
               TNullable(TModel("CreativeWork")), NoCons),
     FieldInfo("distribution", "distribution", Null,
               TNullable(TModel("DataDownload")), NoCons),
     FieldInfo("citation", "citation", Null,
               TNullable(TModel("ScholarlyArticle")), NoCons),
     FieldInfo("quality_metrics", "qualityMetrics", Null,
               TNullable(TDict(TAny)), NoCons)
   >>]

ResearchProduct ==
  [name |-> "ResearchProduct",
   doc |-> "A processed, analysis-ready research data product.",
   populate_by_name |-> TRUE,
   json_schema_extra |-> ("$schema" :> "https://json-schema.org/draft/2020-12/schema" @@ "$id" :> "https://rap-spec.evidencepub.io/v1/schemas/research-product.json"),
   extra |-> "ignore",
   fields |-> <<
     FieldInfo("context", "@context", Required,
               TUnion(<<TLiteral(<<"https://rap-spec.evidencepub.io/v1/context">>), TDict(TAny)>>), NoCons),
     FieldInfo("type_", "@type", Str("ResearchProduct"),
               TLiteral(<<"ResearchProduct">>), NoCons),
     FieldInfo("id_", "@id", Required,
               TUrl, NoCons),
     FieldInfo("identifier", "identifier", Null,
               TNullable(TModel("PropertyValue")), NoCons),
     FieldInfo("product_type", "productType", Required,
               TLiteral(<<"processed_timeseries", "processed_scalar", "processed_image", "processed_spatial", "processed_categorical", "processed_vector">>), NoCons),
     FieldInfo("processing_level", "processingLevel", Required,
               TLiteral(<<"raw", "preprocessed", "analysis_ready", "aggregated">>), NoCons),
     FieldInfo("data", "data", Null,
               TNullable(TModel("VectorData")), NoCons),
     FieldInfo("participant", "participant", Required,
               TModel("ParticipantReference"), NoCons),
     FieldInfo("measurement", "measurement", Required,
               TUnion(<<TModel("RelaxometryMRIMeasurement"), TModel("TimeseriesMeasurement")>>), NoCons),
     FieldInfo("provenance", "provenance", Null,
               TNullable(TModel("ProcessingProvenance")), NoCons),
     FieldInfo("compute_environment", "computeEnvironment", Null,
               TNullable(TModel("ComputeEnvironment")), NoCons),
     FieldInfo("license", "license", Null,
               TNullable(TModel("CreativeWork")), NoCons),
     FieldInfo("distribution", "distribution", Null,
               TNullable(TModel("DataDownload")), NoCons),
     FieldInfo("citation", "citation", Null,
               TNullable(TModel("ScholarlyArticle")), NoCons),
     FieldInfo("quality_metrics", "qualityMetrics", Null,
               TNullable(TDict(TAny)), NoCons)
   >>]

Age ==
  [name |-> "Age",
   doc |-> "Age information.",
   populate_by_name |-> TRUE,
   json_schema_extra |-> <<>>,
   extra |-> "ignore",
   fields |-> <<
     FieldInfo("type_", "@type", Str("QuantityValue"),
               TLiteral(<<"QuantityValue">>), NoCons),
     FieldInfo("value", "value", Required,
               TFloat, Ge(0)),
     FieldInfo("unit", "unit", Str("YR"),
               TStr, NoCons)
   >>]

participant_DemographicData ==
  [name |-> "DemographicData",
   doc |-> "Demographic and experimental group information.",
   populate_by_name |-> TRUE,
   json_schema_extra |-> <<>>,
   extra |-> "ignore",
   fields |-> <<
     FieldInfo("age", "age", Null,
               TNullable(TModel("Age")), NoCons),
     FieldInfo("sex", "sex", Null,
               TNullable(TLiteral(<<"M", "F", "other", "unknown">>)), NoCons),
     FieldInfo("gender", "gender", Null,
               TNullable(TStr), NoCons),
     FieldInfo("group", "group", Null,
               TNullable(TStr), NoCons),
     FieldInfo("ethnicity", "ethnicity", Null,
               TNullable(TStr), NoCons),
     FieldInfo("handedness", "handedness", Null,
               TNullable(TLiteral(<<"left", "right", "ambidextrous", "unknown">>)), NoCons),
     FieldInfo("species", "species", Str("human"),
               TNullable(TStr), NoCons),
     FieldInfo("strain", "strain", Null,
               TNullable(TStr), NoCons),
     FieldInfo("genetic_modification", "geneticModification", Null,
               TNullable(TStr), NoCons)
   >>]

Medication ==
  [name |-> "Medication",
   doc |-> "Medication history entry.",
   populate_by_name |-> TRUE,
   json_schema_extra |-> <<>>,
   extra |-> "ignore",
   fields |-> <<
     FieldInfo("name", "name", Null,
               TNullable(TStr), NoCons),
     FieldInfo("dosage", "dosage", Null,
               TNullable(TStr), NoCons),
     FieldInfo("duration", "duration", Null,
               TNullable(TStr), NoCons)
   >>]

Assessment ==
  [name |-> "Assessment",
   doc |-> "Clinical assessment entry.",
   populate_by_name |-> TRUE,
   json_schema_extra |-> <<>>,
   extra |-> "ignore",
   fields |-> <<
     FieldInfo("name", "name", Null,
               TNullable(TStr), NoCons),
     FieldInfo("score", "score", Null,
               TNullable(TFloat), NoCons),
     FieldInfo("date", "date", Null,
               TNullable(TStr), NoCons)
   >>]

ClinicalData ==
  [name |-> "ClinicalData",
   doc |-> "Clinical or health-related information.",
   populate_by_name |-> TRUE,
   json_schema_extra |-> <<>>,
   extra |-> "ignore",
   fields |-> <<
     FieldInfo("diagnosis", "diagnosis", Null,
               TNullable(TList(TStr)), NoCons),
     FieldInfo("medication_history", "medicationHistory", Null,
               TNullable(TList(TModel("Medication"))), NoCons),
     FieldInfo("assessments", "assessments", Null,
               TNullable(TList(TModel("Assessment"))), NoCons)
   >>]

ProductsAvailable ==
  [name |-> "ProductsAvailable",
   doc |-> "Summary of available data products for this participant.",
   populate_by_name |-> TRUE,
   json_schema_extra |-> <<>>,
   extra |-> "ignore",
   fields |-> <<
     FieldInfo("count", "count", Null,
               TNullable(TInt), Ge(0)),
     FieldInfo("measures", "measures", Null,
               TNullable(TList(TStr)), NoCons),
     FieldInfo("sessions", "sessions", Null,
               TNullable(TList(TStr)), NoCons),
     FieldInfo("by_measure", "byMeasure", Null,
               TNullable(TDict(TInt)), NoCons),
     FieldInfo("by_session", "bySession", Null,
               TNullable(TDict(TInt)), NoCons)
   >>]

SessionDuration ==
  [name |-> "SessionDuration",
   doc |-> "Session duration.",
   populate_by_name |-> TRUE,
   json_schema_extra |-> <<>>,
   extra |-> "ignore",
   fields |-> <<
     FieldInfo("value", "value", Null,
               TNullable(TFloat), NoCons),
     FieldInfo("unit", "unit", Str("MIN"),
               TStr, NoCons)
   >>]

Environment ==
  [name |-> "Environment",
   doc |-> "Environmental conditions.",
   populate_by_name |-> TRUE,
   json_schema_extra |-> <<>>,
   extra |-> "ignore",
   fields |-> <<
     FieldInfo("temperature", "temperature", Null,
               TNullable(TFloat), NoCons),
     FieldInfo("lighting", "lighting", Null,
               TNullable(TStr), NoCons),
     FieldInfo("noise_level", "noiseLevel", Null,
               TNullable(TStr), NoCons)
   >>]

SessionMetadata ==
  [name |-> "SessionMetadata",
   doc |-> "Metadata about an experimental session.",
   populate_by_name |-> TRUE,
   json_schema_extra |-> <<>>,
   extra |-> "ignore",
   fields |-> <<
     FieldInfo("session", "session", Null,
               TNullable(TStr), NoCons),
     FieldInfo("date", "date", Null,
               TNullable(TStr), NoCons),
     FieldInfo("duration", "duration", Null,
               TNullable(TModel("SessionDuration")), NoCons),
     FieldInfo("notes", "notes", Null,
               TNullable(TStr), NoCons),
     FieldInfo("experimenter", "experimenter", Null,
               TNullable(TStr), NoCons),
     FieldInfo("environment", "environment", Null,
               TNullable(TModel("Environment")), NoCons)
   >>]

Links ==
  [name |-> "Links",
   doc |-> "Links to related resources.",
   populate_by_name |-> TRUE,
   json_schema_extra |-> <<>>,
   extra |-> "ignore",
   fields |-> <<
     FieldInfo("products", "products", Null,
               TNullable(TUrl), NoCons),
     FieldInfo("measures", "measures", Null,
               TNullable(TUrl), NoCons),
     FieldInfo("sessions", "sessions", Null,
               TNullable(TUrl), NoCons)
   >>]

Consent ==
  [name |-> "Consent",
   doc |-> "Information about consent and data sharing.",
   populate_by_name |-> TRUE,
   json_schema_extra |-> <<>>,
   extra |-> "ignore",
   fields |-> <<
     FieldInfo("consent_date", "consentDate", Null,
               TNullable(TStr), NoCons),
     FieldInfo("consent_version", "consentVersion", Null,
               TNullable(TStr), NoCons),
     FieldInfo("data_sharing", "dataSharing", Null,
               TNullable(TLiteral(<<"public", "restricted", "private">>)), NoCons),
     FieldInfo("restrictions", "restrictions", Null,
               TNullable(TList(TStr)), NoCons)
   >>]

\* Participant with privacy_level declared Optional[str].
Participant_OpenPrivacyLevel ==
  [name |-> "Participant",
   doc |-> "A research participant with associated demographic data and available products.",
   populate_by_name |-> TRUE,
   json_schema_extra |-> ("$schema" :> "https://json-schema.org/draft/2020-12/schema" @@ "$id" :> "https://rap-spec.evidencepub.io/v1/schemas/participant.json"),
   extra |-> "ignore",
   fields |-> <<
     FieldInfo("context", "@context", Required,
               TUnion(<<TLiteral(<<"https://rap-spec.evidencepub.io/v1/context">>), TDict(TAny)>>), NoCons),
     FieldInfo("type_", "@type", Str("Participant"),
               TLiteral(<<"Participant">>), NoCons),
     FieldInfo("id_", "@id", Required,
               TUrl, NoCons),
     FieldInfo("identifier", "identifier", Required,
               TStr, Pattern("^[A-Za-z0-9_-]+$")),
     FieldInfo("demographic_data", "demographicData", Null,
               TNullable(TModel("participant_DemographicData")), NoCons),
     FieldInfo("enrollment_date", "enrollmentDate", Null,
               TNullable(TStr), NoCons),
     FieldInfo("status", "status", Null,
               TNullable(TLiteral(<<"active", "completed", "withdrawn", "excluded">>)), NoCons),
     FieldInfo("exclusion_reason", "exclusionReason", Null,
               TNullable(TStr), NoCons),
     FieldInfo("clinical_data", "clinicalData", Null,
               TNullable(TModel("ClinicalData")), NoCons),
     FieldInfo("products_available", "productsAvailable", Null,
               TNullable(TModel("ProductsAvailable")), NoCons),
     FieldInfo("session_metadata", "sessionMetadata", Null,
               TNullable(TList(TModel("SessionMetadata"))), NoCons),
     FieldInfo("links", "links", Null,
               TNullable(TModel("Links")), NoCons),
     FieldInfo("consent", "consent", Null,
               TNullable(TModel("Consent")), NoCons),
     FieldInfo("privacy_level", "privacyLevel", Str("pseudonymous"),
               TNullable(TStr), NoCons)
   >>]

Participant ==
  [name |-> "Participant",
   doc |-> "A research participant with associated demographic data and available products.",
   populate_by_name |-> TRUE,
   json_schema_extra |-> ("$schema" :> "https://json-schema.org/draft/2020-12/schema" @@ "$id" :> "https://rap-spec.evidencepub.io/v1/schemas/participant.json"),
   extra |-> "ignore",
   fields |-> <<
     FieldInfo("context", "@context", Required,
               TUnion(<<TLiteral(<<"https://rap-spec.evidencepub.io/v1/context">>), TDict(TAny)>>), NoCons),
     FieldInfo("type_", "@type", Str("Participant"),
               TLiteral(<<"Participant">>), NoCons),
     FieldInfo("id_", "@id", Required,
               TUrl, NoCons),
     FieldInfo("identifier", "identifier", Required,
               TStr, Pattern("^[A-Za-z0-9_-]+$")),
     FieldInfo("demographic_data", "demographicData", Null,
               TNullable(TModel("participant_DemographicData")), NoCons),
     FieldInfo("enrollment_date", "enrollmentDate", Null,
               TNullable(TStr), NoCons),
     FieldInfo("status", "status", Null,
               TNullable(TLiteral(<<"active", "completed", "withdrawn", "excluded">>)), NoCons),
     FieldInfo("exclusion_reason", "exclusionReason", Null,
               TNullable(TStr), NoCons),
     FieldInfo("clinical_data", "clinicalData", Null,
               TNullable(TModel("ClinicalData")), NoCons),
     FieldInfo("products_available", "productsAvailable", Null,
               TNullable(TModel("ProductsAvailable")), NoCons),
     FieldInfo("session_metadata", "sessionMetadata", Null,
               TNullable(TList(TModel("SessionMetadata"))), NoCons),
     FieldInfo("links", "links", Null,
               TNullable(TModel("Links")), NoCons),
     FieldInfo("consent", "consent", Null,
               TNullable(TModel("Consent")), NoCons),
     FieldInfo("privacy_level", "privacyLevel", Str("pseudonymous"),
               TNullable(TLiteral(<<"anonymous", "pseudonymous", "identifiable">>)), NoCons)
   >>]

AppliedFilters ==
  [name |-> "AppliedFilters",
   doc |-> "Currently applied filters.",
   populate_by_name |-> TRUE,
   json_schema_extra |-> <<>>,
   extra |-> "ignore",
   fields |-> <<
     FieldInfo("participant", "participant", Null,
               TNullable(TUnion(<<TStr, TList(TStr)>>)), NoCons),
     FieldInfo("measure", "measure", Null,
               TNullable(TUnion(<<TStr, TList(TStr)>>)), NoCons),
     FieldInfo("session", "session", Null,
               TNullable(TUnion(<<TStr, TList(TStr)>>)), NoCons),
     FieldInfo("group", "group", Null,
               TNullable(TStr), NoCons),
     FieldInfo("processing_level", "processingLevel", Null,
               TNullable(TLiteral(<<"raw", "preprocessed", "analysis_ready", "aggregated">>)), NoCons)
   >>]

AvailableFilters ==
  [name |-> "AvailableFilters",
   doc |-> "All available filter values.",
   populate_by_name |-> TRUE,
   json_schema_extra |-> <<>>,
   extra |-> "ignore",
   fields |-> <<
     FieldInfo("participant", "participant", Null,
               TNullable(TList(TStr)), NoCons),
     FieldInfo("measure", "measure", Null,
               TNullable(TList(TStr)), NoCons),
     FieldInfo("session", "session", Null,
               TNullable(TList(TStr)), NoCons),
     FieldInfo("group", "group", Null,
               TNullable(TList(TStr)), NoCons),
     FieldInfo("processing_level", "processingLevel", Null,
               TNullable(TList(TStr)), NoCons)
   >>]

Filter ==
  [name |-> "Filter",
   doc |-> "Information about applied and available filters.",
   populate_by_name |-> TRUE,
   json_schema_extra |-> <<>>,
   extra |-> "ignore",
   fields |-> <<
     FieldInfo("applied", "applied", Null,
               TNullable(TModel("AppliedFilters")), NoCons),
     FieldInfo("available", "available", Null,
               TNullable(TModel("AvailableFilters")), NoCons)
   >>]

ProductSummary ==
  [name |-> "ProductSummary",
   doc |-> "Brief summary of a research product.",
   populate_by_name |-> TRUE,
   json_schema_extra |-> <<>>,
   extra |-> "ignore",
   fields |-> <<
     FieldInfo("type_", "@type", Str("ResearchProduct"),
               TLiteral(<<"ResearchProduct">>), NoCons),
     FieldInfo("id_", "@id", Required,
               TUrl, NoCons),
     FieldInfo("identifier", "identifier", Required,
               TStr, NoCons),
     FieldInfo("participant", "participant", Null,
               TNullable(TDict(TAny)), NoCons),
     FieldInfo("measurement", "measurement", Null,
               TNullable(TDict(TAny)), NoCons),
     FieldInfo("summary", "summary", Null,
               TNullable(TDict(TAny)), NoCons),
     FieldInfo("distribution", "distribution", Null,
               TNullable(TDict(TAny)), NoCons)
   >>]

PaginationLinks ==
  [name |-> "PaginationLinks",
   doc |-> "Pagination links.",
   populate_by_name |-> TRUE,
   json_schema_extra |-> <<>>,
   extra |-> "ignore",
   fields |-> <<
     FieldInfo("first", "first", Null,
               TNullable(TUrl), NoCons),
     FieldInfo("prev", "prev", Null,
               TNullable(TUrl), NoCons),
     FieldInfo("next", "next", Null,
               TNullable(TUrl), NoCons),
     FieldInfo("last", "last", Null,
               TNullable(TUrl), NoCons)
   >>]

Pagination ==
  [name |-> "Pagination",
   doc |-> "Pagination information for large collections.",
   populate_by_name |-> TRUE,
   json_schema_extra |-> <<>>,
   extra |-> "ignore",
   fields |-> <<
     FieldInfo("page", "page", Null,
               TNullable(TInt), Ge(1)),
     FieldInfo("page_size", "pageSize", Null,
               TNullable(TInt), Ge(1)),
     FieldInfo("total_pages", "totalPages", Null,
               TNullable(TInt), Ge(1)),
     FieldInfo("links", "links", Null,
               TNullable(TModel("PaginationLinks")), NoCons)
   >>]

SortedBy ==
  [name |-> "SortedBy",
   doc |-> "Current sort order.",
   populate_by_name |-> TRUE,
   json_schema_extra |-> <<>>,
   extra |-> "ignore",
   fields |-> <<
     FieldInfo("field", "field", Null,
               TNullable(TStr), NoCons),
     FieldInfo("order", "order", Null,
               TNullable(TLiteral(<<"asc", "desc">>)), NoCons)
   >>]

\* ResearchProductCollection declaring another $id than the one main() passes.
ResearchProductCollection_OtherId ==
  [name |-> "ResearchProductCollection",
   doc |-> "A collection of research products with filtering capabilities.",
   populate_by_name |-> TRUE,
   json_schema_extra |-> ("$schema" :> "https://json-schema.org/draft/2020-12/schema" @@ "$id" :> "https://rap-spec.evidencepub.io/v1/schemas/research-product-collection.json"),
   extra |-> "ignore",
   fields |-> <<
     FieldInfo("context", "@context", Required,
               TUnion(<<TLiteral(<<"https://rap-spec.evidencepub.io/v1/context">>), TDict(TAny)>>), NoCons),
     FieldInfo("type_", "@type", Str("ResearchProductCollection"),
               TLiteral(<<"ResearchProductCollection">>), NoCons),
     FieldInfo("id_", "@id", Required,
               TUrl, NoCons),
     FieldInfo("total_items", "totalItems", Required,
               TInt, Ge(0)),
     FieldInfo("filter", "filter", Null,
               TNullable(TModel("Filter")), NoCons),
     FieldInfo("member", "member", Required,
               TList(TUnion(<<TModel("ResearchProduct"), TModel("ProductSummary")>>)), NoCons),
     FieldInfo("pagination", "pagination", Null,
               TNullable(TModel("Pagination")), NoCons),
     FieldInfo("sorted_by", "sortedBy", Null,
               TNullable(TModel("SortedBy")), NoCons)
   >>]

ResearchProductCollection ==
  [name |-> "ResearchProductCollection",
   doc |-> "A collection of research products with filtering capabilities.",
   populate_by_name |-> TRUE,
   json_schema_extra |-> ("$schema" :> "https://json-schema.org/draft/2020-12/schema" @@ "$id" :> "https://rap-spec.evidencepub.io/v1/schemas/collection.json"),
   extra |-> "ignore",
   fields |-> <<
     FieldInfo("context", "@context", Required,
               TUnion(<<TLiteral(<<"https://rap-spec.evidencepub.io/v1/context">>), TDict(TAny)>>), NoCons),
     FieldInfo("type_", "@type", Str("ResearchProductCollection"),
               TLiteral(<<"ResearchProductCollection">>), NoCons),
     FieldInfo("id_", "@id", Required,
               TUrl, NoCons),
     FieldInfo("total_items", "totalItems", Required,
               TInt, Ge(0)),
     FieldInfo("filter", "filter", Null,
               TNullable(TModel("Filter")), NoCons),
     FieldInfo("member", "member", Required,
               TList(TUnion(<<TModel("ResearchProduct"), TModel("ProductSummary")>>)), NoCons),
     FieldInfo("pagination", "pagination", Null,
               TNullable(TModel("Pagination")), NoCons),
     FieldInfo("sorted_by", "sortedBy", Null,
               TNullable(TModel("SortedBy")), NoCons)
   >>]

AggregateFilters ==
  [name |-> "AggregateFilters",
   doc |-> "Filters applied before aggregation.",
   populate_by_name |-> TRUE,
   json_schema_extra |-> <<>>,
   extra |-> "ignore",
   fields |-> <<
     FieldInfo("participant", "participant", Null,
               TNullable(TUnion(<<TStr, TList(TStr)>>)), NoCons),
     FieldInfo("session", "session", Null,
               TNullable(TUnion(<<TStr, TList(TStr)>>)), NoCons),
     FieldInfo("group", "group", Null,
               TNullable(TStr), NoCons),
     FieldInfo("age_range", "ageRange", Null,
               TNullable(TDict(TFloat)), NoCons)
   >>]

MeanValue ==
  [name |-> "MeanValue",
   doc |-> "Mean value with optional units.",
   populate_by_name |-> TRUE,
   json_schema_extra |-> <<>>,
   extra |-> "ignore",
   fields |-> <<
     FieldInfo("value", "value", Required,
               TFloat, NoCons),
     FieldInfo("units", "units", Null,
               TNullable(TStr), NoCons)
   >>]

QuantileValues ==
  [name |-> "QuantileValues",
   doc |-> "Quantile values.",
   populate_by_name |-> TRUE,
   json_schema_extra |-> <<>>,
   extra |-> "ignore",
   fields |-> <<
     FieldInfo("q25", "q25", Null,
               TNullable(TFloat), NoCons),
     FieldInfo("q50", "q50", Null,
               TNullable(TFloat), NoCons),
     FieldInfo("q75", "q75", Null,
               TNullable(TFloat), NoCons)
   >>]

\* ConfidenceInterval with le=1 left out of level.
ConfidenceInterval_NoUpperBound ==
  [name |-> "ConfidenceInterval",
   doc |-> "Confidence interval.",
   populate_by_name |-> TRUE,
   json_schema_extra |-> <<>>,
   extra |-> "ignore",
   fields |-> <<
     FieldInfo("level", "level", Required,
               TFloat, Ge(0)),
     FieldInfo("lower", "lower", Required,
               TFloat, NoCons),
     FieldInfo("upper", "upper", Required,
               TFloat, NoCons)
   >>]

ConfidenceInterval ==
  [name |-> "ConfidenceInterval",
   doc |-> "Confidence interval.",
   populate_by_name |-> TRUE,
   json_schema_extra |-> <<>>,
   extra |-> "ignore",
   fields |-> <<
     FieldInfo("level", "level", Required,
               TFloat, GeLe(0, 1)),
     FieldInfo("lower", "lower", Required,
               TFloat, NoCons),
     FieldInfo("upper", "upper", Required,
               TFloat, NoCons)
   >>]

aggregate_Statistics ==
  [name |-> "Statistics",
   doc |-> "Statistical measures.",
   populate_by_name |-> TRUE,
   json_schema_extra |-> <<>>,
   extra |-> "ignore",
   fields |-> <<
     FieldInfo("mean", "mean", Null,
               TNullable(TUnion(<<TFloat, TModel("MeanValue")>>)), NoCons),
     FieldInfo("median", "median", Null,
               TNullable(TFloat), NoCons),
     FieldInfo("std", "std", Null,
               TNullable(TFloat), NoCons),
     FieldInfo("sem", "sem", Null,
               TNullable(TFloat), NoCons),
     FieldInfo("variance", "variance", Null,
               TNullable(TFloat), NoCons),
     FieldInfo("min", "min", Null,
               TNullable(TFloat), NoCons),
     FieldInfo("max", "max", Null,
               TNullable(TFloat), NoCons),
     FieldInfo("range", "range", Null,
               TNullable(TList(TFloat)), MinMaxLength(2, 2)),
     FieldInfo("quantiles", "quantiles", Null,
               TNullable(TModel("QuantileValues")), NoCons),
     FieldInfo("confidence_interval", "confidenceInterval", Null,
               TNullable(TModel("ConfidenceInterval")), NoCons)
   >>]

Histogram ==
  [name |-> "Histogram",
   doc |-> "Histogram distribution.",
   populate_by_name |-> TRUE,
   json_schema_extra |-> <<>>,
   extra |-> "ignore",
   fields |-> <<
     FieldInfo("bins", "bins", Null,
               TNullable(TList(TFloat)), NoCons),
     FieldInfo("counts", "counts", Null,
               TNullable(TList(TInt)), NoCons)
   >>]

KDE ==
  [name |-> "KDE",
   doc |-> "Kernel density estimate.",
   populate_by_name |-> TRUE,
   json_schema_extra |-> <<>>,
   extra |-> "ignore",
   fields |-> <<
     FieldInfo("x", "x", Null,
               TNullable(TList(TFloat)), NoCons),
     FieldInfo("y", "y", Null,
               TNullable(TList(TFloat)), NoCons)
   >>]

Distribution ==
  [name |-> "Distribution",
   doc |-> "Distribution information.",
   populate_by_name |-> TRUE,
   json_schema_extra |-> <<>>,
   extra |-> "ignore",
   fields |-> <<
     FieldInfo("histogram", "histogram", Null,
               TNullable(TModel("Histogram")), NoCons),
     FieldInfo("kde", "kde", Null,
               TNullable(TModel("KDE")), NoCons)
   >>]

AggregateLinks ==
  [name |-> "AggregateLinks",
   doc |-> "Links to related resources.",
   populate_by_name |-> TRUE,
   json_schema_extra |-> <<>>,
   extra |-> "ignore",
   fields |-> <<
     FieldInfo("products", "products", Null,
               TNullable(TUrl), NoCons),
     FieldInfo("raw_data", "rawData", Null,
               TNullable(TUrl), NoCons)
   >>]

AggregateGroup ==
  [name |-> "AggregateGroup",
   doc |-> "Aggregate results for a single group.",
   populate_by_name |-> TRUE,
   json_schema_extra |-> <<>>,
   extra |-> "ignore",
   fields |-> <<
     FieldInfo("participant", "participant", Null,
               TNullable(TStr), NoCons),
     FieldInfo("session", "session", Null,
               TNullable(TStr), NoCons),
     FieldInfo("group", "group", Null,
               TNullable(TStr), NoCons),
     FieldInfo("participant_count", "participantCount", Null,
               TNullable(TInt), Ge(0)),
     FieldInfo("product_count", "productCount", Null,
               TNullable(TInt), Ge(0)),
     FieldInfo("statistics", "statistics", Required,
               TModel("aggregate_Statistics"), NoCons),
     FieldInfo("distribution", "distribution", Null,
               TNullable(TModel("Distribution")), NoCons),
     FieldInfo("links", "links", Null,
               TNullable(TModel("AggregateLinks")), NoCons)
   >>]

ComparisonGroup ==
  [name |-> "ComparisonGroup",
   doc |-> "Group being compared.",
   populate_by_name |-> TRUE,
   json_schema_extra |-> <<>>,
   extra |-> "ignore",
   fields |-> <<
     FieldInfo("name", "name", Null,
               TNullable(TStr), NoCons),
     FieldInfo("participant_count", "participantCount", Null,
               TNullable(TInt), NoCons),
     FieldInfo("statistics", "statistics", Null,
               TNullable(TDict(TFloat)), NoCons)
   >>]

EffectSize ==
  [name |-> "EffectSize",
   doc |-> "Effect size measure.",
   populate_by_name |-> TRUE,
   json_schema_extra |-> <<>>,
   extra |-> "ignore",
   fields |-> <<
     FieldInfo("measure", "measure", Required,
               TLiteral(<<"cohensD", "hedgesG", "glassD", "eta-squared", "omega-squared">>), NoCons),
     FieldInfo("value", "value", Required,
               TFloat, NoCons)
   >>]

StatisticalTest ==
  [name |-> "StatisticalTest",
   doc |-> "Statistical test results.",
   populate_by_name |-> TRUE,
   json_schema_extra |-> <<>>,
   extra |-> "ignore",
   fields |-> <<
     FieldInfo("method", "method", Required,
               TLiteral(<<"t-test", "anova", "mann-whitney", "kruskal-wallis", "chi-square">>), NoCons),
     FieldInfo("statistic", "statistic", Required,
               TFloat, NoCons),
     FieldInfo("p_value", "pValue", Required,
               TFloat, GeLe(0, 1)),
     FieldInfo("significant", "significant", Null,
               TNullable(TBool), NoCons),
     FieldInfo("alpha", "alpha", Num(5),
               TNullable(TFloat), NoCons),
     FieldInfo("effect_size", "effectSize", Null,
               TNullable(TModel("EffectSize")), NoCons),
     FieldInfo("degrees_of_freedom", "degreesOfFreedom", Null,
               TNullable(TUnion(<<TFloat, TList(TFloat)>>)), NoCons)
   >>]

PostHocComparison ==
  [name |-> "PostHocComparison",
   doc |-> "Post-hoc pairwise comparison.",
   populate_by_name |-> TRUE,
   json_schema_extra |-> <<>>,
   extra |-> "ignore",
   fields |-> <<
     FieldInfo("group1", "group1", Null,
               TNullable(TStr), NoCons),
     FieldInfo("group2", "group2", Null,
               TNullable(TStr), NoCons),
     FieldInfo("p_value", "pValue", Null,
               TNullable(TFloat), NoCons),
     FieldInfo("adjusted", "adjusted", Null,
               TNullable(TBool), NoCons),
     FieldInfo("adjustment_method", "adjustmentMethod", Null,
               TNullable(TLiteral(<<"bonferroni", "holm", "fdr_bh", "fdr_by">>)), NoCons)
   >>]

Comparison ==
  [name |-> "Comparison",
   doc |-> "Statistical comparison between groups.",
   populate_by_name |-> TRUE,
   json_schema_extra |-> <<>>,
   extra |-> "ignore",
   fields |-> <<
     FieldInfo("groups", "groups", Null,
               TNullable(TList(TModel("ComparisonGroup"))), NoCons),
     FieldInfo("test", "test", Required,
               TModel("StatisticalTest"), NoCons),
     FieldInfo("post_hoc", "postHoc", Null,
               TNullable(TList(TModel("PostHocComparison"))), NoCons)
   >>]

AggregateMetadata ==
  [name |-> "AggregateMetadata",
   doc |-> "Additional metadata about the aggregation.",
   populate_by_name |-> TRUE,
   json_schema_extra |-> <<>>,
   extra |-> "ignore",
   fields |-> <<
     FieldInfo("computed_at", "computedAt", Null,
               TNullable(TStr), NoCons),
     FieldInfo("software_used", "softwareUsed", Null,
               TNullable(TDict(TStr)), NoCons),
     FieldInfo("excluded_products", "excludedProducts", Null,
               TNullable(TList(TDict(TStr))), NoCons)
   >>]

AggregateStatistics ==
  [name |-> "AggregateStatistics",
   doc |-> "Aggregated statistics across multiple research products.",
   populate_by_name |-> TRUE,
   json_schema_extra |-> ("$schema" :> "https://json-schema.org/draft/2020-12/schema" @@ "$id" :> "https://rap-spec.evidencepub.io/v1/schemas/aggregate.json"),
   extra |-> "ignore",
   fields |-> <<
     FieldInfo("context", "@context", Required,
               TUnion(<<TLiteral(<<"https://rap-spec.evidencepub.io/v1/context">>), TDict(TAny)>>), NoCons),
     FieldInfo("type_", "@type", Str("AggregateStatistics"),
               TLiteral(<<"AggregateStatistics">>), NoCons),
     FieldInfo("id_", "@id", Required,
               TUrl, NoCons),
     FieldInfo("measure", "measure", Required,
               TStr, NoCons),
     FieldInfo("grouping", "grouping", Null,
               TNullable(TStr), NoCons),
     FieldInfo("filters", "filters", Null,
               TNullable(TModel("AggregateFilters")), NoCons),
     FieldInfo("aggregates", "aggregates", Required,
               TList(TModel("AggregateGroup")), NoCons),
     FieldInfo("comparison", "comparison", Null,
               TNullable(TModel("Comparison")), NoCons),
     FieldInfo("metadata", "metadata", Null,
               TNullable(TModel("AggregateMetadata")), NoCons)
   >>]

Paper ==
  [name |-> "Paper",
   doc |-> "Paper metadata.",
   populate_by_name |-> TRUE,
   json_schema_extra |-> <<>>,
   extra |-> "ignore",
   fields |-> <<
     FieldInfo("doi", "doi", Required,
               TStr, Pattern("^10\\.\\d{4,}/[\\S]+$")),
     FieldInfo("title", "title", Required,
               TStr, NoCons),
     FieldInfo("authors", "authors", Null,
               TNullable(TList(TStr)), NoCons),
     FieldInfo("publication_date", "publicationDate", Null,
               TNullable(TStr), NoCons)
   >>]

API ==
  [name |-> "API",
   doc |-> "API version and configuration.",
   populate_by_name |-> TRUE,
   json_schema_extra |-> <<>>,
   extra |-> "ignore",
   fields |-> <<
     FieldInfo("version", "version", Required,
               TStr, Pattern("^\\d+\\.\\d+\\.\\d+$")),
     FieldInfo("rap_spec_version", "rapSpecVersion", Required,
               TStr, Pattern("^\\d+\\.\\d+$")),
     FieldInfo("base_url", "baseUrl", Required,
               TUrl, NoCons),
     FieldInfo("documentation", "documentation", Null,
               TNullable(TUrl), NoCons)
   >>]

Endpoint ==
  [name |-> "Endpoint",
   doc |-> "API endpoint definition.",
   populate_by_name |-> TRUE,
   json_schema_extra |-> <<>>,
   extra |-> "ignore",
   fields |-> <<
     FieldInfo("path", "path", Required,
               TStr, NoCons),
     FieldInfo("methods", "methods", Required,
               TList(TLiteral(<<"GET", "POST", "PUT", "DELETE">>)), NoCons),
     FieldInfo("description", "description", Null,
               TNullable(TStr), NoCons)
   >>]

\* ResearchAPIDescriptor with @type declared a plain str.
ResearchAPIDescriptor_OpenType ==
  [name |-> "ResearchAPIDescriptor",
   doc |-> "Discovery metadata for a RAP-compliant API.",
   populate_by_name |-> TRUE,
   json_schema_extra |-> ("$schema" :> "https://json-schema.org/draft/2020-12/schema" @@ "$id" :> "https://rap-spec.evidencepub.io/v1/schemas/api-descriptor.json"),
   extra |-> "ignore",
   fields |-> <<
     FieldInfo("context", "@context", Required,
               TLiteral(<<"https://rap-spec.evidencepub.io/v1/context">>), NoCons),
     FieldInfo("type_", "@type", Str("ResearchAPIDescriptor"),
               TStr, NoCons),
     FieldInfo("paper", "paper", Required,
               TModel("Paper"), NoCons),
     FieldInfo("api", "api", Required,
               TModel("API"), NoCons),
     FieldInfo("endpoints", "endpoints", Required,
               TList(TModel("Endpoint")), NoCons),
     FieldInfo("license", "license", Null,
               TNullable(TStr), NoCons),
     FieldInfo("access_policy", "accessPolicy", Null,
               TNullable(TLiteral(<<"open", "authenticated", "embargoed">>)), NoCons)
   >>]

ResearchAPIDescriptor ==
  [name |-> "ResearchAPIDescriptor",
   doc |-> "Discovery metadata for a RAP-compliant API.",
   populate_by_name |-> TRUE,
   json_schema_extra |-> ("$schema" :> "https://json-schema.org/draft/2020-12/schema" @@ "$id" :> "https://rap-spec.evidencepub.io/v1/schemas/api-descriptor.json"),
   extra |-> "ignore",
   fields |-> <<
     FieldInfo("context", "@context", Required,
               TLiteral(<<"https://rap-spec.evidencepub.io/v1/context">>), NoCons),
     FieldInfo("type_", "@type", Str("ResearchAPIDescriptor"),
               TLiteral(<<"ResearchAPIDescriptor">>), NoCons),
     FieldInfo("paper", "paper", Required,
               TModel("Paper"), NoCons),
     FieldInfo("api", "api", Required,
               TModel("API"), NoCons),
     FieldInfo("endpoints", "endpoints", Required,
               TList(TModel("Endpoint")), NoCons),
     FieldInfo("license", "license", Null,
               TNullable(TStr), NoCons),
     FieldInfo("access_policy", "accessPolicy", Null,
               TNullable(TLiteral(<<"open", "authenticated", "embargoed">>)), NoCons)
   >>]

---------------------------------------------------------------------------
(* The classes by name (a TModel descriptor names its class). *)

ClassOf(cls) ==
    CASE cls = "Unit" -> Unit
      [] cls = "QuantityValue" -> QuantityValue
      [] cls = "SoftwareApplication" -> SoftwareApplication
      [] cls = "ProcessingStep" -> ProcessingStep
      [] cls = "ProcessingProvenance" -> ProcessingProvenance
      [] cls = "ComputeEnvironment" -> ComputeEnvironment
      [] cls = "CreativeWork" -> CreativeWork
      [] cls = "DataDownload" -> DataDownload
      [] cls = "PropertyValue" -> PropertyValue
      [] cls = "ScholarlyArticle" -> ScholarlyArticle
      [] cls = "vector_data_Statistics" -> vector_data_Statistics
      [] cls = "VectorData" -> VectorData
      [] cls = "BaseMeasurement" -> BaseMeasurement
      [] cls = "SpatialResolution" -> SpatialResolution
      [] cls = "FieldStrength" -> FieldStrength
      [] cls = "AcquisitionParameters" -> AcquisitionParameters
      [] cls = "RelaxometryMRIMeasurement" -> RelaxometryMRIMeasurement
      [] cls = "TimeDimension" -> TimeDimension
      [] cls = "Dimensions" -> Dimensions
      [] cls = "SamplingRate" -> SamplingRate
      [] cls = "Duration" -> Duration
      [] cls = "Channels" -> Channels
      [] cls = "TimeseriesMeasurement" -> TimeseriesMeasurement
      [] cls = "research_product_DemographicData" -> research_product_DemographicData
      [] cls = "ParticipantReference" -> ParticipantReference
      [] cls = "ResearchProduct" -> ResearchProduct
      [] cls = "Age" -> Age
      [] cls = "participant_DemographicData" -> participant_DemographicData
      [] cls = "Medication" -> Medication
      [] cls = "Assessment" -> Assessment
      [] cls = "ClinicalData" -> ClinicalData
      [] cls = "ProductsAvailable" -> ProductsAvailable
      [] cls = "SessionDuration" -> SessionDuration
      [] cls = "Environment" -> Environment
      [] cls = "SessionMetadata" -> SessionMetadata
      [] cls = "Links" -> Links
      [] cls = "Consent" -> Consent
      [] cls = "Participant" -> Participant
      [] cls = "AppliedFilters" -> AppliedFilters
      [] cls = "AvailableFilters" -> AvailableFilters
      [] cls = "Filter" -> Filter
      [] cls = "ProductSummary" -> ProductSummary
      [] cls = "PaginationLinks" -> PaginationLinks
      [] cls = "Pagination" -> Pagination
      [] cls = "SortedBy" -> SortedBy
      [] cls = "ResearchProductCollection" -> ResearchProductCollection
      [] cls = "AggregateFilters" -> AggregateFilters
      [] cls = "MeanValue" -> MeanValue
      [] cls = "QuantileValues" -> QuantileValues
      [] cls = "ConfidenceInterval" -> ConfidenceInterval
      [] cls = "aggregate_Statistics" -> aggregate_Statistics
      [] cls = "Histogram" -> Histogram
      [] cls = "KDE" -> KDE
      [] cls = "Distribution" -> Distribution
      [] cls = "AggregateLinks" -> AggregateLinks
      [] cls = "AggregateGroup" -> AggregateGroup
      [] cls = "ComparisonGroup" -> ComparisonGroup
      [] cls = "EffectSize" -> EffectSize
      [] cls = "StatisticalTest" -> StatisticalTest
      [] cls = "PostHocComparison" -> PostHocComparison
      [] cls = "Comparison" -> Comparison
      [] cls = "AggregateMetadata" -> AggregateMetadata
      [] cls = "AggregateStatistics" -> AggregateStatistics
      [] cls = "Paper" -> Paper
      [] cls = "API" -> API
      [] cls = "Endpoint" -> Endpoint
      [] cls = "ResearchAPIDescriptor" -> ResearchAPIDescriptor

\* Every class of the package.
ClassNames ==
    {"Unit", "QuantityValue", "SoftwareApplication", "ProcessingStep", "ProcessingProvenance",
     "ComputeEnvironment", "CreativeWork", "DataDownload", "PropertyValue", "ScholarlyArticle",
     "vector_data_Statistics", "VectorData", "BaseMeasurement", "SpatialResolution",
     "FieldStrength", "AcquisitionParameters", "RelaxometryMRIMeasurement", "TimeDimension",
     "Dimensions", "SamplingRate", "Duration", "Channels", "TimeseriesMeasurement",
     "research_product_DemographicData", "ParticipantReference", "ResearchProduct", "Age",
     "participant_DemographicData", "Medication", "Assessment", "ClinicalData",
     "ProductsAvailable", "SessionDuration", "Environment", "SessionMetadata", "Links",
     "Consent", "Participant", "AppliedFilters", "AvailableFilters", "Filter", "ProductSummary",
     "PaginationLinks", "Pagination", "SortedBy", "ResearchProductCollection",
     "AggregateFilters", "MeanValue", "QuantileValues", "ConfidenceInterval",
     "aggregate_Statistics", "Histogram", "KDE", "Distribution", "AggregateLinks",
     "AggregateGroup", "ComparisonGroup", "EffectSize", "StatisticalTest", "PostHocComparison",
     "Comparison", "AggregateMetadata", "AggregateStatistics", "Paper", "API", "Endpoint",
     "ResearchAPIDescriptor"}

---------------------------------------------------------------------------
(* Validation: pydantic's validators for the type descriptors above, in    *)
(* the mode model_validate(data) runs them (lax, python input).            *)
(* A result is [ok, val, errs]: val the validated value when ok, errs the  *)
(* line errors [loc, type] when not.                                       *)

Ok(val) == [ok |-> TRUE, val |-> val, errs |-> <<>>]
Err(loc, type) == [ok |-> FALSE, val |-> Null, errs |-> <<[loc |-> loc, type |-> type]>>]
Errs(errs) == [ok |-> FALSE, val |-> Null, errs |-> errs]

\* FlattenErrs stopping at the first result that failed.
RECURSIVE FlattenErrs_FirstOnly(_, _)
FlattenErrs_FirstOnly(rs, n) ==
    IF n = 0 THEN <<>>
    ELSE IF Len(FlattenErrs_FirstOnly(rs, n - 1)) > 0 THEN FlattenErrs_FirstOnly(rs, n - 1)
    ELSE rs[n].errs

\* The line errors of results rs[1..n], in order.
RECURSIVE FlattenErrs(_, _)
FlattenErrs(rs, n) ==
    IF n = 0 THEN <<>> ELSE FlattenErrs(rs, n - 1) \o rs[n].errs

\* ge / gt / le of a Field, on a number h given in hundredths.
CheckBounds(cons, h, loc) ==
    IF Len(cons.le) > 0 /\ ~(h <= cons.le[1] * 100) THEN Err(loc, "less_than_equal")
    ELSE IF Len(cons.ge) > 0 /\ ~(h >= cons.ge[1] * 100) THEN Err(loc, "greater_than_equal")
    ELSE IF Len(cons.gt) > 0 /\ ~(h > cons.gt[1] * 100) THEN Err(loc, "greater_than")
    ELSE Ok(Num(h))

\* float: a number; in lax mode also a bool and a string that parses.
ValidateFloat(cons, v, loc) ==
    CASE v.k = "num" -> CheckBounds(cons, v.n, loc)
      [] v.k = "bool" -> CheckBounds(cons, IF v.b THEN 100 ELSE 0, loc)
      [] v.k = "str" ->
            LET p == ParseFloat(v.s)
            IN  IF p.ok THEN CheckBounds(cons, p.v, loc) ELSE Err(loc, "float_parsing")
      [] OTHER -> Err(loc, "float_type")

\* int: a number without fractional part; in lax mode also a bool and a string.
ValidateInt(cons, v, loc) ==
    CASE v.k = "num" ->
            IF v.n % 100 = 0 THEN CheckBounds(cons, v.n, loc) ELSE Err(loc, "int_from_float")
      [] v.k = "bool" -> CheckBounds(cons, IF v.b THEN 100 ELSE 0, loc)
      [] v.k = "str" ->
            LET p == ParseInt(v.s)
            IN  IF p.ok THEN CheckBounds(cons, p.v, loc) ELSE Err(loc, "int_parsing")
      [] OTHER -> Err(loc, "int_type")

ValidateBool(v, loc) ==
    CASE v.k = "bool" -> Ok(v)
      [] v.k = "num" ->
            IF v.n \in {0, 100} THEN Ok(Bool(v.n = 100)) ELSE Err(loc, "bool_parsing")
      [] v.k = "str" ->
            IF v.s \in {"1", "t", "true", "on", "y", "yes"} THEN Ok(Bool(TRUE))
            ELSE IF v.s \in {"0", "f", "false", "off", "n", "no"} THEN Ok(Bool(FALSE))
            ELSE Err(loc, "bool_parsing")
      [] OTHER -> Err(loc, "bool_type")

\* str: only a string, never a number converted to one.
ValidateStr(cons, v, loc) ==
    IF v.k # "str" THEN Err(loc, "string_type")
    ELSE IF Len(cons.pattern) > 0 /\ ~PatternMatches(cons.pattern[1], v.s)
    THEN Err(loc, "string_pattern_mismatch")
    ELSE Ok(v)

ValidateUrl(v, loc) ==
    IF v.k # "str" THEN Err(loc, "url_type")
    ELSE IF ~IsHttpUrl(v.s) THEN Err(loc, "url_parsing")
    ELSE Ok(v)

\* Literal[...]: equal to one of the declared values.
ValidateLiteral(ty, v, loc) ==
    IF v.k = "str" /\ \E i \in 1..Len(ty.values) : ty.values[i] = v.s
    THEN Ok(v)
    ELSE Err(loc, "literal_error")

\* The label of a union member in the loc of its errors.
MemberTag(ty) == IF ty.t = "model" THEN ClassOf(ty.cls).name ELSE ty.t

\* The keys of an object, as a sequence (a JSON object's key order is not kept).
RECURSIVE KeySeq(_)
KeySeq(keys) ==
    IF keys = {} THEN <<>>
    ELSE LET x == CHOOSE y \in keys : TRUE IN <<x>> \o KeySeq(keys \ {x})

\* LookupKey without populate_by_name: the alias and nothing else.
LookupKey_AliasOnly(populate_by_name, f, o) ==
    IF f.alias \in DOMAIN o.fields THEN <<f.alias>> ELSE <<>>

\* The key of document object o that supplies field f of a class: the alias,
\* or with populate_by_name the field's name; <<>> when the document has neither.
LookupKey(populate_by_name, f, o) ==
    IF f.alias \in DOMAIN o.fields THEN <<f.alias>>
    ELSE IF populate_by_name /\ f.name \in DOMAIN o.fields THEN <<f.name>>
    ELSE <<>>

\* The keys of document object o that supply no field of class C.
ExtraKeys(C, o) ==
    {x \in DOMAIN o.fields :
        \A i \in 1..Len(C.fields) :
            /\ x # C.fields[i].alias
            /\ ~(C.populate_by_name /\ x = C.fields[i].name)}

RECURSIVE Validate(_, _, _, _)
RECURSIVE ValidateModel(_, _, _)
RECURSIVE ValidateList(_, _, _, _)
RECURSIVE ValidateDict(_, _, _)
RECURSIVE ValidateUnion(_, _, _, _)

\* A model: every field looked up and validated, all line errors collected;
\* a field the document lacks takes its default or is reported missing; keys
\* that are no field are dropped (extra = "ignore") or reported ("forbid").
ValidateModel(cls, v, loc) ==
    IF v.k # "obj" THEN Err(loc, "model_type")
    ELSE
    LET C  == ClassOf(cls)
        n  == Len(C.fields)
        rs == [i \in 1..n |->
                 LET f   == C.fields[i]
                     key == LookupKey(C.populate_by_name, f, v)
                 IN  IF Len(key) > 0
                     THEN Validate(f.type, f.cons, v.fields[key[1]], loc \o key)
                     ELSE IF f.default.k = "required"
                     THEN Err(loc \o <<f.alias>>, "missing")
                     ELSE Ok(f.default)]
        extra == IF C.extra = "forbid" THEN KeySeq(ExtraKeys(C, v)) ELSE <<>>
        xerrs == [j \in 1..Len(extra) |->
                    [loc |-> loc \o <<extra[j]>>, type |-> "extra_forbidden"]]
        errs  == FlattenErrs(rs, n) \o xerrs
    IN  IF Len(errs) > 0 THEN Errs(errs)
        ELSE Ok([k |-> "model", cls |-> C.name,
                 inst |-> [name \in {C.fields[i].name : i \in 1..n} |->
                          rs[CHOOSE i \in 1..n : C.fields[i].name = name].val]])

ValidateList(ty, cons, v, loc) ==
    IF v.k # "list" THEN Err(loc, "list_type")
    ELSE
    LET n  == Len(v.items)
        rs == [i \in 1..n |-> Validate(ty.item, NoCons, v.items[i], loc \o <<ToString(i - 1)>>)]
        errs == FlattenErrs(rs, n)
    IN  IF Len(errs) > 0 THEN Errs(errs)
        ELSE IF Len(cons.min_length) > 0 /\ n < cons.min_length[1] THEN Err(loc, "too_short")
        ELSE IF Len(cons.max_length) > 0 /\ n > cons.max_length[1] THEN Err(loc, "too_long")
        ELSE Ok(Lst([i \in 1..n |-> rs[i].val]))

ValidateDict(ty, v, loc) ==
    IF v.k # "obj" THEN Err(loc, "dict_type")
    ELSE
    LET keys == KeySeq(DOMAIN v.fields)
        n    == Len(keys)
        rs   == [i \in 1..n |-> Validate(ty.value, NoCons, v.fields[keys[i]], loc \o <<keys[i]>>)]
        errs == FlattenErrs(rs, n)
    IN  IF Len(errs) > 0 THEN Errs(errs)
        ELSE Ok(Obj([x \in DOMAIN v.fields |-> rs[CHOOSE i \in 1..n : keys[i] = x].val]))

\* Union[...] with no discriminator (pydantic's smart mode): every member is
\* tried on the value; the union fails, with the errors of all members, only
\* when no member validates.  When several members validate, which one is
\* returned depends on the installed pydantic's ranking of the successes, so
\* the result carries every member that validated: alts.
ValidateUnion(ty, cons, v, loc) ==
    LET n  == Len(ty.members)
        rs == [i \in 1..n |->
                 Validate(ty.members[i], cons, v, loc \o <<MemberTag(ty.members[i])>>)]
        won == {i \in 1..n : rs[i].ok}
    IN  IF won = {} THEN Errs(FlattenErrs(rs, n))
        ELSE Ok([k |-> "union", alts |-> {rs[i].val : i \in won}])

Validate(ty, cons, v, loc) ==
    CASE ty.t = "any" -> Ok(v)
      [] ty.t = "str" -> ValidateStr(cons, v, loc)
      [] ty.t = "float" -> ValidateFloat(cons, v, loc)
      [] ty.t = "int" -> ValidateInt(cons, v, loc)
      [] ty.t = "bool" -> ValidateBool(v, loc)
      [] ty.t = "url" -> ValidateUrl(v, loc)
      [] ty.t = "literal" -> ValidateLiteral(ty, v, loc)
      [] ty.t = "nullable" ->
            IF v.k = "null" THEN Ok(Null) ELSE Validate(ty.inner, cons, v, loc)
      [] ty.t = "list" -> ValidateList(ty, cons, v, loc)
      [] ty.t = "dict" -> ValidateDict(ty, v, loc)
      [] ty.t = "union" -> ValidateUnion(ty, cons, v, loc)
      [] ty.t = "model" -> ValidateModel(ty.cls, v, loc)

\* cls.model_validate(data)
model_validate(cls, data) == ValidateModel(cls, data, <<>>)

---------------------------------------------------------------------------
(* The documents validation is run on: families built around the minimal   *)
(* valid document of each class, one or two keys varied at a time.         *)

\* How far beyond a numeric bound, on either side, the documents' numbers go.
MaxOver == 3
\* The longest values list of a VectorData document.
MaxValues == 2

\* A key the document does not carry.
Absent == [k |-> "absent"]

\* The object with the given <<key, value>> pairs, keys with value Absent left out.
MkObj(pairs) ==
    LET present == {i \in 1..Len(pairs) : pairs[i][2].k # "absent"}
    IN  Obj([x \in {pairs[i][1] : i \in present} |->
               pairs[CHOOSE i \in present : pairs[i][1] = x][2]])

ContextURI == "https://rap-spec.evidencepub.io/v1/context"

\* Spellings of a number that are not JSON numbers.
NonNumbers == {Str("0.95"), Str("1.1"), Str("90"), Str("181"), Str("abc"), Null}

\* level and pValue: every hundredth from below 0 to above 1, and 1.1.
UnitRangeNumbers == {Num(h) : h \in (0 - MaxOver)..(100 + MaxOver)} \cup {Num(110)}

\* flipAngle: every whole degree from below 0 to above 180, and the hundredths
\* around 180.
AngleNumbers ==
    {Num(d * 100) : d \in (0 - MaxOver)..(180 + MaxOver)}
      \cup {Num(18000 + e) : e \in (0 - MaxOver)..MaxOver}

ConfidenceIntervalDoc(level) ==
    MkObj(<< <<"level", level>>, <<"lower", Num(10)>>, <<"upper", Num(90)>> >>)

AcquisitionParametersDoc(flipAngle) ==
    MkObj(<< <<"scanner", Str("Siemens Prisma")>>, <<"flipAngle", flipAngle>> >>)

StatisticalTestDoc(pValue) ==
    MkObj(<< <<"method", Str("t-test")>>, <<"statistic", Num(250)>>, <<"pValue", pValue>> >>)

UnitDoc == MkObj(<< <<"symbol", Str("ms")>> >>)

\* values lists: every list of up to MaxValues numbers from {1.0, 2.5}, and
\* one with a number spelled as a string.
RECURSIVE SeqsUpTo(_, _)
SeqsUpTo(S, n) ==
    IF n = 0 THEN {<<>>}
    ELSE SeqsUpTo(S, n - 1) \cup {Append(q, x) : q \in {p \in SeqsUpTo(S, n - 1) : Len(p) = n - 1}, x \in S}

ValuesLists ==
    {Lst(q) : q \in SeqsUpTo({Num(100), Num(250)}, MaxValues)} \cup {Lst(<<Str("1.0")>>)}

VectorDataDoc(values, unit) ==
    MkObj(<< <<"values", values>>, <<"unit", unit>> >>)

VectorDataDocs ==
    {VectorDataDoc(values, unit) :
        values \in ValuesLists \cup {Absent, Str("1.0")},
        unit \in {UnitDoc, Str("http://qudt.org/vocab/unit/MilliSEC"), Num(100), Absent}}

\* Measurement objects: the discriminator, the required measure under its alias
\* or its internal name, an MRI-specific field, a timeseries-specific field.
MeasurementDoc(measurementType, specificMeasure, specific_measure, acq, rate) ==
    MkObj(<< <<"measurementType", measurementType>>,
             <<"specificMeasure", specificMeasure>>,
             <<"specific_measure", specific_measure>>,
             <<"acquisitionParameters", acq>>,
             <<"samplingRate", rate>> >>)

SamplingRateDoc == MkObj(<< <<"value", Num(25000)>>, <<"unit", MkObj(<< <<"symbol", Str("Hz")>> >>)>> >>)

MeasurementDocs ==
    {MeasurementDoc(mt, sm[1], sm[2], acq, rate) :
        mt \in {Absent, Str("timeseries"), Str("relaxometry_mri"), Str("spectroscopy"), Str("Timeseries")},
        sm \in {<<Str("eeg"), Absent>>, <<Absent, Str("eeg")>>, <<Absent, Absent>>},
        acq \in {Absent, AcquisitionParametersDoc(Num(18000)), AcquisitionParametersDoc(Num(18100))},
        rate \in {Absent, SamplingRateDoc}}

TimeseriesDoc == MeasurementDoc(Str("timeseries"), Str("eeg"), Absent, Absent, Absent)

ParticipantReferenceDoc ==
    MkObj(<< <<"@id", Str("https://example.org/participants/sub-01")>>,
             <<"identifier", Str("sub-01")>> >>)

\* @type values: left out, and strings among which each entity's literal is one.
TypeValues == {Absent, Str("ResearchProduct"), Str("Participant"), Str("ResearchProductCollection"),
               Str("AggregateStatistics"), Str("ResearchAPIDescriptor"), Str("Dataset")}

\* An unrecognized top-level key: left out, or present.
ExtraValues == {Absent, Str("not part of the model")}

ResearchProductDoc(type, measurement, data, extra) ==
    MkObj(<< <<"@context", Str(ContextURI)>>,
             <<"@type", type>>,
             <<"@id", Str("https://example.org/products/rp-001")>>,
             <<"productType", Str("processed_vector")>>,
             <<"processingLevel", Str("analysis_ready")>>,
             <<"participant", ParticipantReferenceDoc>>,
             <<"measurement", measurement>>,
             <<"data", data>>,
             <<"extraField", extra>> >>)

ResearchProductDocs ==
    {ResearchProductDoc(type, TimeseriesDoc, Absent, extra) :
        type \in TypeValues, extra \in ExtraValues}
      \cup {ResearchProductDoc(Str("ResearchProduct"), m, Absent, Absent) : m \in MeasurementDocs \cup {Absent}}
      \cup {ResearchProductDoc(Str("ResearchProduct"),
                MeasurementDoc(Str("relaxometry_mri"), Str("t1_relaxation_time"), Absent,
                               AcquisitionParametersDoc(a), Absent),
                Absent, Absent) : a \in AngleNumbers \cup NonNumbers}
      \cup {ResearchProductDoc(Str("ResearchProduct"), TimeseriesDoc, d, Absent) : d \in VectorDataDocs}

ParticipantDoc(type, identifier, status, extra) ==
    MkObj(<< <<"@context", Str(ContextURI)>>,
             <<"@type", type>>,
             <<"@id", Str("https://example.org/participants/sub-01")>>,
             <<"identifier", identifier>>,
             <<"status", status>>,
             <<"extraField", extra>> >>)

ParticipantDocs ==
    {ParticipantDoc(type, identifier, status, extra) :
        type \in TypeValues,
        identifier \in {Str("sub-01"), Str("sub 01"), Absent},
        status \in {Absent, Str("active"), Str("paused")},
        extra \in ExtraValues}

StatisticsDoc(ci) == MkObj(<< <<"mean", Num(4210)>>, <<"confidenceInterval", ci>> >>)

AggregateGroupDoc(ci) ==
    MkObj(<< <<"group", Str("control")>>, <<"statistics", StatisticsDoc(ci)>> >>)

ComparisonDoc(pValue, postHocP) ==
    MkObj(<< <<"test", StatisticalTestDoc(pValue)>>,
             <<"postHoc", IF postHocP.k = "absent" THEN Absent
                          ELSE Lst(<<MkObj(<< <<"group1", Str("control")>>,
                                              <<"group2", Str("treatment")>>,
                                              <<"pValue", postHocP>> >>)>>)>> >>)

AggregateStatisticsDoc(type, aggregates, comparison) ==
    MkObj(<< <<"@context", Str(ContextURI)>>,
             <<"@type", type>>,
             <<"@id", Str("https://example.org/aggregates/t1-by-group")>>,
             <<"measure", Str("t1_relaxation_time")>>,
             <<"aggregates", aggregates>>,
             <<"comparison", comparison>> >>)

AggregatesLists ==
    {Lst(<<>>), Lst(<<AggregateGroupDoc(Absent)>>),
     Lst(<<AggregateGroupDoc(Absent), AggregateGroupDoc(ConfidenceIntervalDoc(Num(95)))>>),
     Lst(<<AggregateGroupDoc(ConfidenceIntervalDoc(Num(110)))>>),
     Absent}

AggregateStatisticsDocs ==
    {AggregateStatisticsDoc(type, aggregates, Absent) :
        type \in TypeValues, aggregates \in AggregatesLists}
      \cup {AggregateStatisticsDoc(Str("AggregateStatistics"), Lst(<<AggregateGroupDoc(Absent)>>),
                                   ComparisonDoc(p, q)) :
               p \in {Num(0), Num(5), Num(100), Num(101), Num(-1)},
               q \in {Absent, Num(5), Num(150), Num(-1)}}

ProductSummaryDoc ==
    MkObj(<< <<"@id", Str("https://example.org/products/rp-001")>>,
             <<"identifier", Str("rp-001")>> >>)

ResearchProductCollectionDoc(type, member, extra) ==
    MkObj(<< <<"@context", Str(ContextURI)>>,
             <<"@type", type>>,
             <<"@id", Str("https://example.org/products")>>,
             <<"totalItems", Num(100)>>,
             <<"member", member>>,
             <<"extraField", extra>> >>)

ResearchProductCollectionDocs ==
    {ResearchProductCollectionDoc(type, member, extra) :
        type \in TypeValues,
        member \in {Lst(<<>>), Lst(<<ProductSummaryDoc>>),
                    Lst(<<ResearchProductDoc(Str("ResearchProduct"), TimeseriesDoc, Absent, Absent)>>)},
        extra \in ExtraValues}

ResearchAPIDescriptorDoc(context, type, extra) ==
    MkObj(<< <<"@context", context>>,
             <<"@type", type>>,
             <<"paper", MkObj(<< <<"doi", Str("10.1234/rap.2024")>>, <<"title", Str("A paper")>> >>)>>,
             <<"api", MkObj(<< <<"version", Str("1.0.0")>>, <<"rapSpecVersion", Str("1.0")>>,
                               <<"baseUrl", Str("https://api.example.org/v1")>> >>)>>,
             <<"endpoints", Lst(<<MkObj(<< <<"path", Str("/products")>>,
                                           <<"methods", Lst(<<Str("GET")>>)>> >>)>>)>>,
             <<"extraField", extra>> >>)

ResearchAPIDescriptorDocs ==
    {ResearchAPIDescriptorDoc(context, type, extra) :
        context \in {Str(ContextURI), Absent},
        type \in TypeValues,
        extra \in ExtraValues}

\* A valid document of each of the five entities.
EntityDoc(cls) ==
    CASE cls = "ResearchProduct" -> ResearchProductDoc(Str("ResearchProduct"), TimeseriesDoc, Absent, Absent)
      [] cls = "Participant" -> ParticipantDoc(Str("Participant"), Str("sub-01"), Absent, Absent)
      [] cls = "ResearchProductCollection" ->
            ResearchProductCollectionDoc(Str("ResearchProductCollection"), Lst(<<ProductSummaryDoc>>), Absent)
      [] cls = "AggregateStatistics" ->
            AggregateStatisticsDoc(Str("AggregateStatistics"), Lst(<<AggregateGroupDoc(Absent)>>), Absent)
      [] cls = "ResearchAPIDescriptor" ->
            ResearchAPIDescriptorDoc(Str(ContextURI), Str("ResearchAPIDescriptor"), Absent)

\* The document with the key set to the value, or without the key.
WithKey(doc, key, value) ==
    IF value.k = "absent" THEN ObjWithout(doc, key) ELSE ObjWith(doc, key, value)

\* An inline JSON-LD context map.
InlineContext ==
    MkObj(<< <<"@vocab", Str("https://rap-spec.evidencepub.io/v1/")>>,
             <<"schema", Str("https://schema.org/")>> >>)

\* @context values: the fixed URI, other strings, inline maps, other JSON, left out.
ContextValues ==
    {Str(ContextURI), Str(ContextURI \o "/"), Str("https://schema.org"), Str(""),
     InlineContext, EmptyObj, Lst(<<Str(ContextURI)>>), Null, Absent}

\* @id values: kept as the document has it, left out, a string that is no URL.
KeepValue == [k |-> "keep"]
IdValues == {KeepValue, Absent, Str("not a url")}

\* The entity documents with every @context, @type left in or out, every @id.
JsonLdDocs(cls) ==
    {LET d1 == WithKey(EntityDoc(cls), "@context", c)
         d2 == IF t THEN d1 ELSE ObjWithout(d1, "@type")
     IN  IF i.k = "keep" THEN d2 ELSE WithKey(d2, "@id", i) :
        c \in ContextValues, t \in BOOLEAN, i \in IdValues}

\* The document object with every top-level key that is the wire alias of a
\* field of the class replaced by the field's internal name, and the other
\* way round (a key is left alone where the other spelling is present too).
Respell(o, from, to) ==
    LET spell(x) == IF x \in DOMAIN from /\ to[from[x]] \notin DOMAIN o.fields THEN to[from[x]] ELSE x
    IN  Obj([y \in {spell(x) : x \in DOMAIN o.fields} |->
               o.fields[CHOOSE x \in DOMAIN o.fields : spell(x) = y]])

FieldOfAlias(C) ==
    [a \in {C.fields[i].alias : i \in 1..Len(C.fields)} |->
        CHOOSE i \in 1..Len(C.fields) : C.fields[i].alias = a]
FieldOfName(C) ==
    [n \in {C.fields[i].name : i \in 1..Len(C.fields)} |->
        CHOOSE i \in 1..Len(C.fields) : C.fields[i].name = n]
NameOfField(C) == [i \in 1..Len(C.fields) |-> C.fields[i].name]
AliasOfField(C) == [i \in 1..Len(C.fields) |-> C.fields[i].alias]

ByName(cls, o) == Respell(o, FieldOfAlias(ClassOf(cls)), NameOfField(ClassOf(cls)))
ByAlias(cls, o) == Respell(o, FieldOfName(ClassOf(cls)), AliasOfField(ClassOf(cls)))

\* ResearchProduct documents whose measurement is spelled by internal names.
ByNameMeasurementDocs ==
    {ResearchProductDoc(Str("ResearchProduct"), ByName("RelaxometryMRIMeasurement", m), Absent, Absent) :
        m \in {MeasurementDoc(mt, Str("eeg"), Absent, acq, Absent) :
                 mt \in {Absent, Str("timeseries"), Str("relaxometry_mri"), Str("spectroscopy")},
                 acq \in {Absent, AcquisitionParametersDoc(Num(18000)), AcquisitionParametersDoc(Num(18100))}}}

\* The valid ResearchProduct document with one top-level key removed, or one
\* key of its participant removed.
OneKeyRemovedDocs ==
    {ObjWithout(EntityDoc("ResearchProduct"), key) : key \in DOMAIN EntityDoc("ResearchProduct").fields}
      \cup {ObjWith(EntityDoc("ResearchProduct"), "participant", ObjWithout(ParticipantReferenceDoc, key)) :
               key \in DOMAIN ParticipantReferenceDoc.fields}

\* Values for the enumerated fields: every declared literal of the four
\* fields, other spellings of some, strings of no enumeration, other JSON.
EnumValues ==
    {Str(x) : x \in {"processed_timeseries", "processed_scalar", "processed_image", "processed_spatial",
                     "processed_categorical", "processed_vector",
                     "raw", "preprocessed", "analysis_ready", "aggregated",
                     "active", "completed", "withdrawn", "excluded",
                     "anonymous", "pseudonymous", "identifiable",
                     "Raw", "raw ", "ACTIVE", "processed", "spreadsheet", "paused", "public", ""}}
      \cup {Null, Num(100), Lst(<<Str("raw")>>)}

EnumDocs(cls, keys) == {WithKey(EntityDoc(cls), key, v) : key \in keys, v \in EnumValues}

\* Every (class, document) pair model_validate is called with.
Cases ==
    ({"ConfidenceInterval"} \X {ConfidenceIntervalDoc(x) : x \in UnitRangeNumbers \cup NonNumbers \cup {Absent}})
      \cup ({"AcquisitionParameters"} \X {AcquisitionParametersDoc(x) : x \in AngleNumbers \cup NonNumbers \cup {Absent}})
      \cup ({"StatisticalTest"} \X {StatisticalTestDoc(x) : x \in UnitRangeNumbers \cup NonNumbers \cup {Absent}})
      \cup ({"VectorData"} \X VectorDataDocs)
      \cup ({"ResearchProduct"} \X ResearchProductDocs)
      \cup ({"Participant"} \X ParticipantDocs)
      \cup ({"AggregateStatistics"} \X AggregateStatisticsDocs)
      \cup ({"ResearchProductCollection"} \X ResearchProductCollectionDocs)
      \cup ({"ResearchAPIDescriptor"} \X ResearchAPIDescriptorDocs)
      \cup UNION {{cls} \X JsonLdDocs(cls) :
                    cls \in {"ResearchProduct", "Participant", "ResearchProductCollection",
                             "AggregateStatistics", "ResearchAPIDescriptor"}}
      \cup UNION {{cls} \X {ByName(cls, d) : d \in JsonLdDocs(cls)} :
                    cls \in {"ResearchProduct", "Participant", "ResearchProductCollection",
                             "AggregateStatistics", "ResearchAPIDescriptor"}}
      \cup ({"ResearchProduct"} \X ByNameMeasurementDocs)
      \cup ({"ResearchProduct"} \X OneKeyRemovedDocs)
      \cup ({"ResearchProduct"} \X EnumDocs("ResearchProduct", {"productType", "processingLevel"}))
      \cup ({"Participant"} \X EnumDocs("Participant", {"status", "privacyLevel"}))

---------------------------------------------------------------------------
(* Schema projection: model_class.model_json_schema(mode="serialization",  *)
(* by_alias=True), as far as the keywords the package's declarations give  *)
(* rise to.  Per-field title, description and examples are left out.       *)

\* The classes a type descriptor refers to directly.
RECURSIVE TypeRefs(_)
TypeRefs(ty) ==
    CASE ty.t = "model" -> {ty.cls}
      [] ty.t = "nullable" -> TypeRefs(ty.inner)
      [] ty.t = "list" -> TypeRefs(ty.item)
      [] ty.t = "dict" -> TypeRefs(ty.value)
      [] ty.t = "union" -> UNION {TypeRefs(ty.members[i]) : i \in 1..Len(ty.members)}
      [] OTHER -> {}

\* The classes a class refers to, directly or through other classes ($defs).
RECURSIVE ClassRefs(_)
ClassRefs(cls) ==
    LET C == ClassOf(cls)
        direct == UNION {TypeRefs(C.fields[i].type) : i \in 1..Len(C.fields)}
    IN  direct \cup UNION {ClassRefs(d) : d \in direct}

\* Numeric and length keywords of a Field's constraints.
ConsKeywords(cons) ==
    MkObj(<< <<"minimum", IF Len(cons.ge) > 0 THEN Num(cons.ge[1] * 100) ELSE Absent>>,
             <<"exclusiveMinimum", IF Len(cons.gt) > 0 THEN Num(cons.gt[1] * 100) ELSE Absent>>,
             <<"maximum", IF Len(cons.le) > 0 THEN Num(cons.le[1] * 100) ELSE Absent>>,
             <<"minItems", IF Len(cons.min_length) > 0 THEN Num(cons.min_length[1] * 100) ELSE Absent>>,
             <<"maxItems", IF Len(cons.max_length) > 0 THEN Num(cons.max_length[1] * 100) ELSE Absent>>,
             <<"pattern", IF Len(cons.pattern) > 0 THEN Str(cons.pattern[1]) ELSE Absent>> >>)

\* a with the keys of b added
ObjMerge(a, b) ==
    Obj([x \in (DOMAIN a.fields) \cup (DOMAIN b.fields) |->
           IF x \in DOMAIN b.fields THEN b.fields[x] ELSE a.fields[x]])

RECURSIVE TypeSchema(_, _)
TypeSchema(ty, cons) ==
    CASE ty.t = "any" -> EmptyObj
      [] ty.t = "str" -> ObjMerge(MkObj(<< <<"type", Str("string")>> >>), ConsKeywords(cons))
      [] ty.t = "float" -> ObjMerge(MkObj(<< <<"type", Str("number")>> >>), ConsKeywords(cons))
      [] ty.t = "int" -> ObjMerge(MkObj(<< <<"type", Str("integer")>> >>), ConsKeywords(cons))
      [] ty.t = "bool" -> MkObj(<< <<"type", Str("boolean")>> >>)
      [] ty.t = "url" -> MkObj(<< <<"type", Str("string")>>, <<"format", Str("uri")>> >>)
      [] ty.t = "literal" ->
            IF Len(ty.values) = 1
            THEN MkObj(<< <<"const", Str(ty.values[1])>>, <<"type", Str("string")>> >>)
            ELSE MkObj(<< <<"enum", Lst([i \in 1..Len(ty.values) |-> Str(ty.values[i])])>>,
                          <<"type", Str("string")>> >>)
      [] ty.t = "nullable" ->
            MkObj(<< <<"anyOf", Lst(<<TypeSchema(ty.inner, cons),
                                      MkObj(<< <<"type", Str("null")>> >>)>>)>> >>)
      [] ty.t = "list" ->
            ObjMerge(MkObj(<< <<"type", Str("array")>>, <<"items", TypeSchema(ty.item, NoCons)>> >>),
                     ConsKeywords(cons))
      [] ty.t = "dict" ->
            MkObj(<< <<"type", Str("object")>>,
                     <<"additionalProperties",
                       IF ty.value.t = "any" THEN Bool(TRUE) ELSE TypeSchema(ty.value, NoCons)>> >>)
      [] ty.t = "union" ->
            MkObj(<< <<"anyOf", Lst([i \in 1..Len(ty.members) |->
                                       TypeSchema(ty.members[i], cons)])>> >>)
      [] ty.t = "model" ->
            MkObj(<< <<"$ref", Str("#/$defs/" \o ClassOf(ty.cls).name)>> >>)

\* The schema of one field: its type's schema, and its default if it has one.
FieldSchema(f) ==
    ObjMerge(TypeSchema(f.type, f.cons),
             MkObj(<< <<"default", IF f.default.k = "required" THEN Absent ELSE f.default>> >>))

\* The aliases of the fields with no default, in declaration order.
RECURSIVE RequiredAliases(_, _)
RequiredAliases(fields, n) ==
    IF n = 0 THEN <<>>
    ELSE RequiredAliases(fields, n - 1)
           \o (IF fields[n].default.k = "required" THEN <<Str(fields[n].alias)>> ELSE <<>>)

\* The object schema of a class, without $defs: properties keyed by alias,
\* required, title (the class name), description (the docstring), and the
\* keys of the class's json_schema_extra on top.
ClassSchema(cls) ==
    LET C == ClassOf(cls)
        n == Len(C.fields)
        required == RequiredAliases(C.fields, n)
        base == MkObj(<< <<"title", Str(C.name)>>,
                         <<"description", Str(C.doc)>>,
                         <<"type", Str("object")>>,
                         <<"properties",
                           Obj([a \in {C.fields[i].alias : i \in 1..n} |->
                                  FieldSchema(C.fields[CHOOSE i \in 1..n : C.fields[i].alias = a])])>>,
                         <<"required", IF Len(required) > 0 THEN Lst(required) ELSE Absent>>,
                         <<"additionalProperties",
                           IF C.extra = "forbid" THEN Bool(FALSE)
                           ELSE IF C.extra = "allow" THEN Bool(TRUE) ELSE Absent>> >>)
    IN  ObjMerge(base, Obj([x \in DOMAIN C.json_schema_extra |-> Str(C.json_schema_extra[x])]))

\* model_class.model_json_schema(mode="serialization", by_alias=True)
model_json_schema(cls) ==
    LET refs == ClassRefs(cls)
    IN  ObjMerge(ClassSchema(cls),
                 MkObj(<< <<"$defs",
                            IF refs = {} THEN Absent
                            ELSE Obj([d \in {ClassOf(r).name : r \in refs} |->
                                        ClassSchema(CHOOSE r \in refs : ClassOf(r).name = d)])>> >>))

---------------------------------------------------------------------------
(* scripts/generate_schemas.py *)

Draft202012 == "https://json-schema.org/draft/2020-12/schema"

\* schema.get("title", ""), on schemas whose title is a string
TitleOf(schema) ==
    IF "title" \in DOMAIN schema.fields THEN schema.fields["title"].s ELSE ""

\* post_process_schema with $id set only when the schema has none yet.
post_process_schema_KeepsDeclaredId(schema, schema_id) ==
    LET s1 == ObjWith(schema, "$schema", Str(Draft202012))
        s2 == IF HasKey(s1, "$id") THEN s1 ELSE ObjWith(s1, "$id", Str(schema_id))
        s3 == ObjWithout(s2, "additionalProperties")
    IN  IF HasKey(s3, "properties") /\ StrContains("ResearchProduct", TitleOf(s3))
        THEN ObjWith(s3, "additionalProperties", Bool(FALSE))
        ELSE s3

\* A JSON value with every additionalProperties key removed, at any depth
RECURSIVE StripAdditional(_)
StripAdditional(v) ==
    IF v.k = "obj"
    THEN Obj([x \in (DOMAIN v.fields) \ {"additionalProperties"} |-> StripAdditional(v.fields[x])])
    ELSE v

\* post_process_schema popping additionalProperties at every depth.
post_process_schema_StripsNested(schema, schema_id) ==
    LET s1 == ObjWith(schema, "$schema", Str(Draft202012))
        s2 == ObjWith(s1, "$id", Str(schema_id))
        s3 == StripAdditional(s2)
    IN  IF HasKey(s3, "properties") /\ StrContains("ResearchProduct", TitleOf(s3))
        THEN ObjWith(s3, "additionalProperties", Bool(FALSE))
        ELSE s3

post_process_schema(schema, schema_id) ==
    LET s1 == ObjWith(schema, "$schema", Str(Draft202012))
        s2 == ObjWith(s1, "$id", Str(schema_id))
        s3 == ObjWithout(s2, "additionalProperties")
    IN  IF HasKey(s3, "properties") /\ StrContains("ResearchProduct", TitleOf(s3))
        THEN ObjWith(s3, "additionalProperties", Bool(FALSE))
        ELSE s3

SchemasURI == "https://rap-spec.evidencepub.io/v1/schemas/"

\* The nine generate_schema calls of main(), in order: the model class, the
\* directory and file under schemas/v1, and the $id.
Target(cls, dir, file, id) ==
    [cls |-> cls, dir |-> dir, path |-> dir \o file, id |-> SchemasURI \o id]

\* The same calls, the collection schema written to the research product's path
Targets_SharedPath ==
    << Target("BaseMeasurement", "schemas/v1/measurements/", "base-measurement.json",
              "measurements/base-measurement.json"),
       Target("RelaxometryMRIMeasurement", "schemas/v1/measurements/", "relaxometry-mri.json",
              "measurements/relaxometry-mri.json"),
       Target("TimeseriesMeasurement", "schemas/v1/measurements/", "timeseries.json",
              "measurements/timeseries.json"),
       Target("VectorData", "schemas/v1/data-types/", "vector-data.json",
              "data-types/vector-data.json"),
       Target("ResearchProduct", "schemas/v1/", "research-product.json",
              "research-product.json"),
       Target("Participant", "schemas/v1/", "participant.json",
              "participant.json"),
       Target("ResearchProductCollection", "schemas/v1/", "research-product.json",
              "collection.json"),
       Target("AggregateStatistics", "schemas/v1/", "aggregate.json",
              "aggregate.json"),
       Target("ResearchAPIDescriptor", "schemas/v1/", "api-descriptor.json",
              "api-descriptor.json") >>

Targets ==
    << Target("BaseMeasurement", "schemas/v1/measurements/", "base-measurement.json",
              "measurements/base-measurement.json"),
       Target("RelaxometryMRIMeasurement", "schemas/v1/measurements/", "relaxometry-mri.json",
              "measurements/relaxometry-mri.json"),
       Target("TimeseriesMeasurement", "schemas/v1/measurements/", "timeseries.json",
              "measurements/timeseries.json"),
       Target("VectorData", "schemas/v1/data-types/", "vector-data.json",
              "data-types/vector-data.json"),
       Target("ResearchProduct", "schemas/v1/", "research-product.json",
              "research-product.json"),
       Target("Participant", "schemas/v1/", "participant.json",
              "participant.json"),
       Target("ResearchProductCollection", "schemas/v1/", "collection.json",
              "collection.json"),
       Target("AggregateStatistics", "schemas/v1/", "aggregate.json",
              "aggregate.json"),
       Target("ResearchAPIDescriptor", "schemas/v1/", "api-descriptor.json",
              "api-descriptor.json") >>

\* Schema dicts post_process_schema is called with: the raw projections of the
\* nine classes, and dicts with every combination of the top-level keys it
\* reads or writes, with nested additionalProperties inside properties and $defs.
NestedOpen ==
    MkObj(<< <<"quality", MkObj(<< <<"type", Str("object")>>,
                                   <<"additionalProperties", Bool(TRUE)>> >>)>> >>)

SchemaInputs ==
    {model_json_schema(Targets[i].cls) : i \in 1..Len(Targets)}
      \cup {MkObj(<< <<"$schema", schema>>, <<"$id", id>>, <<"title", title>>,
                     <<"type", Str("object")>>,
                     <<"properties", properties>>, <<"$defs", properties>>,
                     <<"additionalProperties", additional>> >>) :
               schema \in {Absent, Str(Draft202012), Str("http://json-schema.org/draft-07/schema#")},
               id \in {Absent, Str(SchemasURI \o "participant.json"), Str("urn:example:other")},
               title \in {Absent, Str("ResearchProduct"), Str("ResearchProductCollection"),
                          Str("Participant"), Str("")},
               properties \in {Absent, NestedOpen},
               additional \in {Absent, Bool(TRUE), Bool(FALSE)}}

SchemaIds == {SchemasURI \o "participant.json", SchemasURI \o "research-product.json", ""}

---------------------------------------------------------------------------
(* The filesystem under the repository root, as generate_schema sees it.   *)

\* A file is absent, empty, partial or complete (stage); doc is the document
\* being or last written to it, and before is what the file holds ahead of
\* that document.
NoFile == [stage |-> "absent", doc |-> Null, before |-> <<>>]
\* A file left by an earlier run: complete, with that run's content.
PreviousFile ==
    [stage |-> "complete", doc |-> MkObj(<< <<"title", Str("written by an earlier run")>> >>), before |-> <<>>]

SchemaDirs == {"schemas/v1/", "schemas/v1/measurements/", "schemas/v1/data-types/"}
SchemaPaths == {Targets[i].path : i \in 1..Len(Targets)}

\* The directories Path.mkdir(parents=True) makes sure exist.
WithParents(dir) == {dir, "schemas/v1/"}

DirOfPath(path) == Targets[CHOOSE i \in 1..Len(Targets) : Targets[i].path = path].dir

---------------------------------------------------------------------------
(* The four machines.  Each specification runs one of them; the variables  *)
(* of the other three stay idle.                                           *)

NoResult == [ok |-> FALSE, val |-> Null, errs |-> <<>>]

ValidateIdle == vcls = "" /\ vdoc = Null /\ vpc = "idle" /\ vres = NoResult
PostIdle == pschema = Null /\ pid = "" /\ ppc = "idle" /\ pres = Null
GenIdle ==
    /\ gpc = "idle" /\ gi = 0 /\ gschema = Null /\ dirs = {} /\ files = <<>> /\ gout = <<>>
    /\ grun = 0 /\ gfirst = <<>>
DriverIdle ==
    /\ examples = <<>> /\ dpc = "idle" /\ example_files = <<>> /\ dsorted = <<>> /\ di = 0
    /\ ddata = Null /\ derr = <<>> /\ valid_count = 0 /\ invalid_count = 0 /\ dout = <<>> /\ dret = -1

CallsIdle == opc = <<>> /\ oschema = <<>> /\ oserial = FALSE
(* Instance validation: a call of cls.model_validate on a document, and    *)
(* its return.                                                             *)

Init ==
    /\ \E c \in Cases : vcls = c[1] /\ vdoc = c[2]
    /\ vpc = "call"
    /\ vres = NoResult
    /\ PostIdle /\ GenIdle /\ DriverIdle /\ CallsIdle

\* product = ResearchProduct.model_validate(data), and the same call on the
\* other classes
ModelValidate ==
    /\ vpc = "call"
    /\ vres' = model_validate(vcls, vdoc)
    /\ vpc' = "returned"
    /\ UNCHANGED <<vcls, vdoc, pvars, gvars, dvars, ovars>>

Next == ModelValidate

Spec == Init /\ [][Next]_vars

(* post_process_schema on any schema dict and schema_id.                   *)

InitPost ==
    /\ pschema \in SchemaInputs
    /\ pid \in SchemaIds
    /\ ppc = "call"
    /\ pres = Null
    /\ ValidateIdle /\ GenIdle /\ DriverIdle /\ CallsIdle

PostProcessCall ==
    /\ ppc = "call"
    /\ pres' = post_process_schema(pschema, pid)
    /\ ppc' = "returned"
    /\ UNCHANGED <<pschema, pid, vvars, gvars, dvars, ovars>>

NextPost == PostProcessCall

SpecPost == InitPost /\ [][NextPost]_vars

(* The generation driver: main() makes its nine generate_schema calls in   *)
(* order.  An OSError of mkdir, open or a write is not caught anywhere, so  *)
(* it ends the run.                                                        *)

InitGen ==
    /\ gpc = "start"
    /\ gi = 0
    /\ gschema = Null
    /\ dirs \in {{}, {"schemas/v1/"}, SchemaDirs}
    /\ \E previous \in BOOLEAN :
          files = [p \in SchemaPaths |->
                     IF previous /\ DirOfPath(p) \in dirs THEN PreviousFile ELSE NoFile]
    /\ gout = <<>>
    /\ grun = 1 /\ gfirst = <<>>
    /\ ValidateIdle /\ PostIdle /\ DriverIdle /\ CallsIdle

\* print("Generating JSON Schemas from Pydantic models...\n")
MainStart ==
    /\ gpc = "start"
    /\ gout' = Append(gout, "Generating JSON Schemas from Pydantic models...")
    /\ gi' = 1
    /\ gpc' = "project"
    /\ UNCHANGED <<gschema, dirs, files, grun, gfirst, vvars, pvars, dvars, ovars>>

\* schema = model_class.model_json_schema(mode="serialization", by_alias=True)
Project ==
    /\ gpc = "project"
    /\ gschema' = model_json_schema(Targets[gi].cls)
    /\ gpc' = "post"
    /\ UNCHANGED <<gi, dirs, files, gout, grun, gfirst, vvars, pvars, dvars, ovars>>

\* schema = post_process_schema(schema, schema_id)
PostProcess ==
    /\ gpc = "post"
    /\ gschema' = post_process_schema(gschema, Targets[gi].id)
    /\ gpc' = "mkdir"
    /\ UNCHANGED <<gi, dirs, files, gout, grun, gfirst, vvars, pvars, dvars, ovars>>

\* output_path.parent.mkdir(parents=True, exist_ok=True)
Mkdir ==
    /\ gpc = "mkdir"
    /\ dirs' = dirs \cup WithParents(Targets[gi].dir)
    /\ gpc' = "open"
    /\ UNCHANGED <<gi, gschema, files, gout, grun, gfirst, vvars, pvars, dvars, ovars>>

\* mkdir raises (the directory has to be made and cannot be)
MkdirFails ==
    /\ gpc = "mkdir"
    /\ Targets[gi].dir \notin dirs
    /\ gpc' = "crashed"
    /\ UNCHANGED <<gi, gschema, dirs, files, gout, grun, gfirst, vvars, pvars, dvars, ovars>>

\* Open in append mode: what the file holds is kept ahead of the new document.
Open_Append ==
    /\ gpc = "open"
    /\ files' = [files EXCEPT ![Targets[gi].path] =
                   [stage |-> "empty", doc |-> Null,
                    before |-> IF @.stage = "absent" THEN <<>> ELSE Append(@.before, @.doc)]]
    /\ gpc' = "dump"
    /\ UNCHANGED <<gi, gschema, dirs, gout, grun, gfirst, vvars, pvars, dvars, ovars>>

\* open(output_path, "w", encoding="utf-8"): the file is created or truncated
Open ==
    /\ gpc = "open"
    /\ files' = [files EXCEPT ![Targets[gi].path] = [stage |-> "empty", doc |-> Null, before |-> <<>>]]
    /\ gpc' = "dump"
    /\ UNCHANGED <<gi, gschema, dirs, gout, grun, gfirst, vvars, pvars, dvars, ovars>>

\* open raises (the path is not writable)
OpenFails ==
    /\ gpc = "open"
    /\ gpc' = "crashed"
    /\ UNCHANGED <<gi, gschema, dirs, files, gout, grun, gfirst, vvars, pvars, dvars, ovars>>

\* json.dump(schema, f, indent=2, ensure_ascii=False): the text is written in
\* pieces through the file's buffer, so a first part of it may reach the disk
\* before the rest.
Dump ==
    /\ gpc = "dump"
    /\ \E flushed \in BOOLEAN :
          files' = [files EXCEPT ![Targets[gi].path] =
                      IF flushed THEN [@ EXCEPT !.stage = "partial", !.doc = gschema] ELSE @]
    /\ gpc' = "newline"
    /\ UNCHANGED <<gi, gschema, dirs, gout, grun, gfirst, vvars, pvars, dvars, ovars>>

\* a write of json.dump raises (say the disk is full): what was flushed stays
DumpFails ==
    /\ gpc = "dump"
    /\ \E flushed \in BOOLEAN :
          files' = [files EXCEPT ![Targets[gi].path] =
                      IF flushed THEN [@ EXCEPT !.stage = "partial", !.doc = gschema] ELSE @]
    /\ gpc' = "crashed"
    /\ UNCHANGED <<gi, gschema, dirs, gout, grun, gfirst, vvars, pvars, dvars, ovars>>

\* f.write("\n"), into the buffer
Newline ==
    /\ gpc = "newline"
    /\ gpc' = "close"
    /\ UNCHANGED <<gi, gschema, dirs, files, gout, grun, gfirst, vvars, pvars, dvars, ovars>>

\* leaving the with block closes f: the buffer is flushed, the file is whole
Close ==
    /\ gpc = "close"
    /\ files' = [files EXCEPT ![Targets[gi].path] = [@ EXCEPT !.stage = "complete", !.doc = gschema]]
    /\ gpc' = "print"
    /\ UNCHANGED <<gi, gschema, dirs, gout, grun, gfirst, vvars, pvars, dvars, ovars>>

\* the flush of close raises
CloseFails ==
    /\ gpc = "close"
    /\ gpc' = "crashed"
    /\ UNCHANGED <<gi, gschema, dirs, files, gout, grun, gfirst, vvars, pvars, dvars, ovars>>

\* print(f"... Generated: {output_path}"), and on to the next call of main()
PrintGenerated ==
    /\ gpc = "print"
    /\ gout' = Append(gout, "Generated: " \o Targets[gi].path)
    /\ IF gi < Len(Targets)
       THEN gi' = gi + 1 /\ gpc' = "project"
       ELSE gi' = gi /\ gpc' = "banner"
    /\ UNCHANGED <<gschema, dirs, files, grun, gfirst, vvars, pvars, dvars, ovars>>

\* print("... All schemas generated successfully!") and the output directory
\* The banner printed in a finally clause: also after a call has raised.
Banner_Finally ==
    /\ gpc \in {"banner", "crashed"}
    /\ "All schemas generated successfully!" \notin {gout[i] : i \in 1..Len(gout)}
    /\ gout' = gout \o <<"All schemas generated successfully!", "Output directory: schemas/v1">>
    /\ gpc' = IF gpc = "crashed" THEN "crashed" ELSE "done"
    /\ UNCHANGED <<gi, gschema, dirs, files, grun, gfirst, vvars, pvars, dvars, ovars>>

Banner ==
    /\ gpc = "banner"
    /\ gout' = gout \o <<"All schemas generated successfully!", "Output directory: schemas/v1">>
    /\ gpc' = "done"
    /\ UNCHANGED <<gi, gschema, dirs, files, grun, gfirst, vvars, pvars, dvars, ovars>>

\* main() is run again after a run that ended well (the script is invoked a
\* second time, the model definitions unchanged).
MainAgain ==
    /\ gpc = "done"
    /\ grun = 1
    /\ gfirst' = files
    /\ grun' = 2
    /\ gpc' = "start"
    /\ gi' = 0
    /\ gschema' = Null
    /\ gout' = <<>>
    /\ UNCHANGED <<dirs, files, vvars, pvars, dvars, ovars>>

NextGen ==
    \/ MainStart \/ Project \/ PostProcess
    \/ Mkdir \/ MkdirFails \/ Open \/ OpenFails
    \/ Dump \/ DumpFails \/ Newline \/ Close \/ CloseFails
    \/ PrintGenerated \/ Banner

SpecGen == InitGen /\ [][NextGen]_vars

\* The driver run twice.
NextRegen == NextGen \/ MainAgain

SpecRegen == InitGen /\ [][NextRegen]_vars


---------------------------------------------------------------------------
(* The validation driver: validate_examples.main() over the examples       *)
(* directory.  A file is known by its rank in the order of paths (file 1   *)
(* sorts before file 2); rglob returns the matching files in any order.    *)

\* The most files the examples directory holds.
MaxFiles == 3

\* What open and json.load find in a file.
Unreadable == [kind |-> "unreadable", jsonld |-> TRUE, doc |-> Null]
Malformed == [kind |-> "malformed", jsonld |-> TRUE, doc |-> Null]
JsonFile(doc) == [kind |-> "json", jsonld |-> TRUE, doc |-> doc]
\* A file whose name does not end in .jsonld.
OtherFile == [kind |-> "json", jsonld |-> FALSE, doc |-> EmptyObj]

\* The minimal ResearchProduct with its measure given as specific_measure.
InternalNameDoc ==
    ResearchProductDoc(Str("ResearchProduct"),
                       MeasurementDoc(Str("timeseries"), Absent, Str("eeg"), Absent, Absent),
                       Absent, Absent)

\* A ResearchProduct document that breaks the model in two places: no
\* participant, and a productType outside the enumeration.
TwoFailuresDoc ==
    ObjWith(ObjWithout(EntityDoc("ResearchProduct"), "participant"), "productType", Str("spreadsheet"))

ExampleContents ==
    {Unreadable, Malformed, OtherFile,
     JsonFile(EntityDoc("ResearchProduct")), JsonFile(InternalNameDoc), JsonFile(TwoFailuresDoc)}

\* Every sequence that lists each element of S once.
RECURSIVE Orderings(_)
Orderings(S) ==
    IF S = {} THEN {<<>>}
    ELSE UNION {{<<x>> \o q : q \in Orderings(S \ {x})} : x \in S}

\* sorted(example_files): insertion of each path at its place.
Insert(x, q) ==
    LET before == {i \in 1..Len(q) : q[i] <= x}
        n == Cardinality(before)
    IN  SubSeq(q, 1, n) \o <<x>> \o SubSeq(q, n + 1, Len(q))
RECURSIVE sorted(_)
sorted(q) == IF Len(q) = 0 THEN <<>> ELSE Insert(q[Len(q)], sorted(SubSeq(q, 1, Len(q) - 1)))

Line(text, file, errs) == [text |-> text, file |-> file, errs |-> errs]

\* examples_dir.rglob("*.jsonld") over the directory
rglob(dir) == {f \in DOMAIN dir : dir[f].jsonld}

InitDriver ==
    /\ \E present \in SUBSET (1..MaxFiles) : examples \in [present -> ExampleContents]
    /\ dpc = "start"
    /\ example_files = <<>> /\ dsorted = <<>> /\ di = 0
    /\ ddata = Null /\ derr = <<>>
    /\ valid_count = 0 /\ invalid_count = 0
    /\ dout = <<>> /\ dret = -1
    /\ ValidateIdle /\ PostIdle /\ GenIdle /\ CallsIdle

\* print("Validating ..."); example_files = list(examples_dir.rglob("*.jsonld"))
Discover ==
    /\ dpc = "start"
    /\ dout' = Append(dout, Line("Validating example files using Pydantic models...", 0, <<>>))
    /\ example_files' \in Orderings(rglob(examples))
    /\ dpc' = "check"
    /\ UNCHANGED <<examples, dsorted, di, ddata, derr, valid_count, invalid_count, dret, vvars, pvars, gvars, ovars>>

\* if not example_files: print("No example files found"); return 1
NoFiles ==
    /\ dpc = "check"
    /\ Len(example_files) = 0
    /\ dout' = Append(dout, Line("No example files found", 0, <<>>))
    /\ dret' = 1
    /\ dpc' = "done"
    /\ UNCHANGED <<examples, example_files, dsorted, di, ddata, derr, valid_count, invalid_count, vvars, pvars, gvars, ovars>>

\* valid_count = 0; invalid_count = 0; for example_file in sorted(example_files):
LoopStart ==
    /\ dpc = "check"
    /\ Len(example_files) > 0
    /\ valid_count' = 0 /\ invalid_count' = 0
    /\ dsorted' = sorted(example_files)
    /\ di' = 1
    /\ dpc' = "load"
    /\ UNCHANGED <<examples, example_files, ddata, derr, dout, dret, vvars, pvars, gvars, ovars>>

\* data = load_json_file(file_path)
Load ==
    /\ dpc = "load"
    /\ examples[dsorted[di]].kind = "json"
    /\ ddata' = examples[dsorted[di]].doc
    /\ dpc' = "validate"
    /\ UNCHANGED <<examples, example_files, dsorted, di, derr, valid_count, invalid_count, dout, dret, vvars, pvars, gvars, ovars>>

\* open raises OSError, or json.load raises JSONDecodeError: on to the handler
LoadFails ==
    /\ dpc = "load"
    /\ examples[dsorted[di]].kind # "json"
    /\ derr' = <<[loc |-> <<>>,
                  type |-> IF examples[dsorted[di]].kind = "unreadable" THEN "os_error" ELSE "json_invalid"]>>
    /\ dpc' = "except"
    /\ UNCHANGED <<examples, example_files, dsorted, di, ddata, valid_count, invalid_count, dout, dret, vvars, pvars, gvars, ovars>>

\* product = ResearchProduct.model_validate(data); a ValidationError carries
\* every error found
Validated ==
    /\ dpc = "validate"
    /\ dpc' = IF model_validate("ResearchProduct", ddata).ok THEN "valid" ELSE "except"
    /\ derr' = model_validate("ResearchProduct", ddata).errs
    /\ UNCHANGED <<examples, example_files, dsorted, di, ddata, valid_count, invalid_count, dout, dret, vvars, pvars, gvars, ovars>>

\* The loop moves to the next file, or is over.
NextFile ==
    IF di < Len(dsorted) THEN di' = di + 1 /\ dpc' = "load"
    ELSE di' = di /\ dpc' = "summary"

\* print("Valid: ..."); return True; valid_count += 1
ReportValid ==
    /\ dpc = "valid"
    /\ dout' = Append(dout, Line("Valid", dsorted[di], <<>>))
    /\ valid_count' = valid_count + 1
    /\ NextFile
    /\ UNCHANGED <<examples, example_files, dsorted, ddata, derr, invalid_count, dret, vvars, pvars, gvars, ovars>>

\* ReportInvalid without the except clause: the exception leaves main().
ReportInvalid_Uncaught ==
    /\ dpc = "except"
    /\ dpc' = "crashed"
    /\ dret' = 1
    /\ UNCHANGED <<examples, example_files, dsorted, di, ddata, derr, valid_count, invalid_count, dout, vvars, pvars, gvars, ovars>>

\* except Exception as e: print("Invalid: ..."); print("Error: {e}");
\* return False; invalid_count += 1
ReportInvalid ==
    /\ dpc = "except"
    /\ dout' = dout \o <<Line("Invalid", dsorted[di], <<>>), Line("Error", dsorted[di], derr)>>
    /\ invalid_count' = invalid_count + 1
    /\ NextFile
    /\ UNCHANGED <<examples, example_files, dsorted, ddata, derr, valid_count, dret, vvars, pvars, gvars, ovars>>

\* Summary returning 0 whatever the counts are.
Summary_AlwaysZero ==
    /\ dpc = "summary"
    /\ dout' = Append(dout, Line("Results", 0, <<[loc |-> <<valid_count, invalid_count>>, type |-> "counts"]>>))
    /\ dret' = 0
    /\ dpc' = "done"
    /\ UNCHANGED <<examples, example_files, dsorted, di, ddata, derr, valid_count, invalid_count, vvars, pvars, gvars, ovars>>

\* print("Results: ..."); return 0 if invalid_count == 0 else 1
Summary ==
    /\ dpc = "summary"
    /\ dout' = Append(dout, Line("Results", 0, <<[loc |-> <<valid_count, invalid_count>>, type |-> "counts"]>>))
    /\ dret' = IF invalid_count = 0 THEN 0 ELSE 1
    /\ dpc' = "done"
    /\ UNCHANGED <<examples, example_files, dsorted, di, ddata, derr, valid_count, invalid_count, vvars, pvars, gvars, ovars>>

NextDriver ==
    \/ Discover \/ NoFiles \/ LoopStart
    \/ Load \/ LoadFails \/ Validated
    \/ ReportValid \/ ReportInvalid \/ Summary

SpecDriver == InitDriver /\ [][NextDriver]_vars

---------------------------------------------------------------------------
(* generate_schema calls made on their own: each of the chosen targets is  *)
(* called once, the calls overlapping step by step or made one after        *)
(* another in any order.  The filesystem itself does not fail here, so a   *)
(* call that fails does so because of another call.                        *)

TargetIds == 1..Len(Targets)

\* mkdir without exist_ok: a directory already there is an error
exist_ok_False == FALSE

\* exist_ok=True of output_path.parent.mkdir
exist_ok == TRUE

\* The directory above dir; the repository root is there from the start.
ParentOf(dir) == IF dir = "schemas/v1/" THEN "" ELSE "schemas/v1/"

\* os.mkdir(dir) as Path.mkdir calls it: what it raises, or "made"
os_mkdir(dir) ==
    IF dir \in dirs THEN "FileExistsError"
    ELSE IF ParentOf(dir) \notin dirs \cup {""} THEN "FileNotFoundError"
    ELSE "made"

\* Where a call stands after Path.mkdir's os.mkdir(dir) with that outcome
AfterMkdir(outcome, ok, then) ==
    CASE outcome = "made" -> then
      [] outcome = "FileExistsError" -> IF ok THEN then ELSE "crashed"
      [] outcome = "FileNotFoundError" -> "mkparent"

InitCalls(called, serial) ==
    /\ opc = [t \in TargetIds |-> IF t \in called THEN "ready" ELSE "idle"]
    /\ oschema = [t \in TargetIds |-> Null]
    /\ oserial = serial
    /\ dirs \in {{}, {"schemas/v1/"}, SchemaDirs}
    /\ \E previous \in BOOLEAN :
          files = [p \in SchemaPaths |->
                     IF previous /\ DirOfPath(p) \in dirs THEN PreviousFile ELSE NoFile]
    /\ gpc = "idle" /\ gi = 0 /\ gschema = Null /\ gout = <<>> /\ grun = 0 /\ gfirst = <<>>
    /\ ValidateIdle /\ PostIdle /\ DriverIdle

\* Two calls for distinct targets, overlapping
InitOverlap ==
    \E t, u \in TargetIds : t < u /\ InitCalls({t, u}, FALSE)

\* The nine calls one after another, in any order
InitAnyOrder == InitCalls(TargetIds, TRUE)

Running(t) == opc[t] \notin {"idle", "ready", "done", "crashed"}

\* schema = model_class.model_json_schema(...); schema = post_process_schema(...)
Build(t) ==
    /\ opc[t] = "ready"
    /\ oserial => \A u \in TargetIds : ~Running(u)
    /\ oschema' = [oschema EXCEPT ![t] =
                     post_process_schema(model_json_schema(Targets[t].cls), Targets[t].id)]
    /\ opc' = [opc EXCEPT ![t] = "mkdir"]
    /\ UNCHANGED <<oserial, dirs, files, gpc, gi, gschema, gout, grun, gfirst, vvars, pvars, dvars>>

\* Path.mkdir(parents=True, exist_ok=True): os.mkdir of the directory
MkdirTry(t) ==
    /\ opc[t] = "mkdir"
    /\ dirs' = IF os_mkdir(Targets[t].dir) = "made" THEN dirs \cup {Targets[t].dir} ELSE dirs
    /\ opc' = [opc EXCEPT ![t] = AfterMkdir(os_mkdir(Targets[t].dir), exist_ok, "open")]
    /\ UNCHANGED <<oschema, oserial, files, gpc, gi, gschema, gout, grun, gfirst, vvars, pvars, dvars>>

\* ... on FileNotFoundError, self.parent.mkdir(parents=True, exist_ok=True)
MkdirParent(t) ==
    /\ opc[t] = "mkparent"
    /\ dirs' = IF os_mkdir(ParentOf(Targets[t].dir)) = "made"
               THEN dirs \cup {ParentOf(Targets[t].dir)} ELSE dirs
    /\ opc' = [opc EXCEPT ![t] = AfterMkdir(os_mkdir(ParentOf(Targets[t].dir)), TRUE, "mkself")]
    /\ UNCHANGED <<oschema, oserial, files, gpc, gi, gschema, gout, grun, gfirst, vvars, pvars, dvars>>

\* ... and then self.mkdir(mode, parents=False, exist_ok=exist_ok)
MkdirSelf(t) ==
    /\ opc[t] = "mkself"
    /\ dirs' = IF os_mkdir(Targets[t].dir) = "made" THEN dirs \cup {Targets[t].dir} ELSE dirs
    /\ opc' = [opc EXCEPT ![t] = AfterMkdir(os_mkdir(Targets[t].dir), exist_ok, "open")]
    /\ UNCHANGED <<oschema, oserial, files, gpc, gi, gschema, gout, grun, gfirst, vvars, pvars, dvars>>

\* open(output_path, "w", encoding="utf-8")
OpenFile(t) ==
    /\ opc[t] = "open"
    /\ Targets[t].dir \in dirs
    /\ files' = [files EXCEPT ![Targets[t].path] = [stage |-> "empty", doc |-> Null, before |-> <<>>]]
    /\ opc' = [opc EXCEPT ![t] = "write"]
    /\ UNCHANGED <<oschema, oserial, dirs, gpc, gi, gschema, gout, grun, gfirst, vvars, pvars, dvars>>

\* json.dump(schema, f, ...); f.write("\n"): part of the text may reach the file
WriteFile(t) ==
    /\ opc[t] = "write"
    /\ \E flushed \in BOOLEAN :
          files' = [files EXCEPT ![Targets[t].path] =
                      IF flushed THEN [@ EXCEPT !.stage = "partial", !.doc = oschema[t]] ELSE @]
    /\ opc' = [opc EXCEPT ![t] = "close"]
    /\ UNCHANGED <<oschema, oserial, dirs, gpc, gi, gschema, gout, grun, gfirst, vvars, pvars, dvars>>

\* leaving the with block closes the file; print(f"   Generated: ...") and return
CloseFile(t) ==
    /\ opc[t] = "close"
    /\ files' = [files EXCEPT ![Targets[t].path] = [@ EXCEPT !.stage = "complete", !.doc = oschema[t]]]
    /\ oschema' = [oschema EXCEPT ![t] = Null]
    /\ opc' = [opc EXCEPT ![t] = "done"]
    /\ UNCHANGED <<oserial, dirs, gpc, gi, gschema, gout, grun, gfirst, vvars, pvars, dvars>>

NextCalls ==
    \E t \in TargetIds :
        \/ Build(t)
        \/ MkdirTry(t)
        \/ MkdirParent(t)
        \/ MkdirSelf(t)
        \/ OpenFile(t)
        \/ WriteFile(t)
        \/ CloseFile(t)

SpecOverlap == InitOverlap /\ [][NextCalls]_vars

SpecAnyOrder == InitAnyOrder /\ [][NextCalls]_vars

---------------------------------------------------------------------------
(* Properties *)

IsStr(v, s) == v.k = "str" /\ v.s = s

\* The five entities and the @type literal of each (its own kind).
EntityKinds == {"ResearchProduct", "Participant", "ResearchProductCollection",
                "AggregateStatistics", "ResearchAPIDescriptor"}

Returned(cls) == vpc = "returned" /\ vcls = cls

\* The document validates once its key `key` is taken out.
ValidWithout(cls, doc, key) == model_validate(cls, ObjWithout(doc, key)).ok

\* A ResearchProduct document carries a measurement object, and validates when
\* that measurement is replaced by the minimal timeseries measurement.
ProductWithMeasurement(doc) ==
    /\ HasKey(doc, "measurement")
    /\ doc.fields["measurement"].k = "obj"
    /\ model_validate("ResearchProduct", ObjWith(doc, "measurement", TimeseriesDoc)).ok

\* The variants the validated measurement of a ResearchProduct resolved to.
ResolvedVariants(res) == {a.cls : a \in res.val.inst["measurement"].alts}

FitsVariant(cls, m) == ValidateModel(cls, m, <<>>).ok

MRIDoc(flipAngle) ==
    ResearchProductDoc(Str("ResearchProduct"),
                       MeasurementDoc(Str("relaxometry_mri"), Str("t1_relaxation_time"), Absent,
                                      AcquisitionParametersDoc(flipAngle), Absent),
                       Absent, Absent)

\* C1: when main() has finished, a schema file has the top-level key
\* additionalProperties (with value false) iff it is ResearchProduct's.
C1_OnlyResearchProductClosed ==
    gpc = "done" =>
        \A i \in 1..Len(Targets) :
            LET written == files[Targets[i].path].doc
            IN  /\ HasKey(written, "additionalProperties") <=> Targets[i].cls = "ResearchProduct"
                /\ HasKey(written, "additionalProperties") =>
                      written.fields["additionalProperties"] = Bool(FALSE)

\* C2: whatever $schema and $id the schema dict came with, the returned schema
\* has $schema equal to the draft 2020-12 URI and $id equal to schema_id.
C2_SchemaAndIdForced ==
    ppc = "returned" =>
        /\ HasKey(pres, "$schema") /\ pres.fields["$schema"] = Str(Draft202012)
        /\ HasKey(pres, "$id") /\ pres.fields["$id"] = Str(pid)

\* C2 witness: a schema that came with another $schema and another $id.
C2_Witness ==
    /\ ppc = "returned"
    /\ HasKey(pschema, "$schema") /\ pschema.fields["$schema"] # Str(Draft202012)
    /\ HasKey(pschema, "$id") /\ pschema.fields["$id"] # Str(pid)
    /\ pres.fields["$id"] = Str(pid)

\* C3: an otherwise valid document with one unrecognized top-level field is
\* rejected as a ResearchProduct and accepted as a Participant.
C3_ClosedObjectPolicy ==
    /\ (Returned("ResearchProduct") /\ HasKey(vdoc, "extraField")
          /\ ValidWithout("ResearchProduct", vdoc, "extraField")) => ~vres.ok
    /\ (Returned("Participant") /\ HasKey(vdoc, "extraField")
          /\ ValidWithout("Participant", vdoc, "extraField")) => vres.ok

\* C4: in a ResearchProduct that is valid apart from its measurement, a
\* measurement with measurementType "timeseries" is accepted iff it is a valid
\* TimeseriesMeasurement and resolves to that variant alone; likewise
\* "relaxometry_mri" and RelaxometryMRIMeasurement; with any other
\* measurementType the document is rejected.
C4_MeasurementResolution ==
    (Returned("ResearchProduct") /\ ProductWithMeasurement(vdoc)
       /\ HasKey(vdoc.fields["measurement"], "measurementType")) =>
        LET m  == vdoc.fields["measurement"]
            mt == m.fields["measurementType"]
        IN  /\ IsStr(mt, "timeseries") =>
                  /\ vres.ok <=> FitsVariant("TimeseriesMeasurement", m)
                  /\ vres.ok => ResolvedVariants(vres) = {"TimeseriesMeasurement"}
            /\ IsStr(mt, "relaxometry_mri") =>
                  /\ vres.ok <=> FitsVariant("RelaxometryMRIMeasurement", m)
                  /\ vres.ok => ResolvedVariants(vres) = {"RelaxometryMRIMeasurement"}
            /\ (~IsStr(mt, "timeseries") /\ ~IsStr(mt, "relaxometry_mri")) => ~vres.ok

\* C4 witness: a timeseries measurement with no MRI-specific field, accepted
\* and resolved to TimeseriesMeasurement.
C4_Witness ==
    /\ Returned("ResearchProduct") /\ ProductWithMeasurement(vdoc)
    /\ HasKey(vdoc.fields["measurement"], "measurementType")
    /\ IsStr(vdoc.fields["measurement"].fields["measurementType"], "timeseries")
    /\ ~HasKey(vdoc.fields["measurement"], "acquisitionParameters")
    /\ vres.ok
    /\ ResolvedVariants(vres) = {"TimeseriesMeasurement"}

\* C5: in a ResearchProduct that is valid apart from its measurement,
\* validation fails when the measurementType matches no variant's literal, and
\* fails when the measurement fits more than one variant.
C5_DiscriminatorDecides ==
    (Returned("ResearchProduct") /\ ProductWithMeasurement(vdoc)) =>
        LET m == vdoc.fields["measurement"]
        IN  /\ (HasKey(m, "measurementType")
                  /\ ~IsStr(m.fields["measurementType"], "timeseries")
                  /\ ~IsStr(m.fields["measurementType"], "relaxometry_mri")) => ~vres.ok
            /\ (FitsVariant("RelaxometryMRIMeasurement", m)
                  /\ FitsVariant("TimeseriesMeasurement", m)) => ~vres.ok

\* C6: a document that gives a numeric field (level, flipAngle, pValue, an
\* element of values) as a string is rejected.
C6_NoCoercion ==
    /\ (Returned("ConfidenceInterval") /\ HasKey(vdoc, "level")
          /\ vdoc.fields["level"].k = "str") => ~vres.ok
    /\ (Returned("AcquisitionParameters") /\ HasKey(vdoc, "flipAngle")
          /\ vdoc.fields["flipAngle"].k = "str") => ~vres.ok
    /\ (Returned("StatisticalTest") /\ HasKey(vdoc, "pValue")
          /\ vdoc.fields["pValue"].k = "str") => ~vres.ok
    /\ (Returned("VectorData") /\ HasKey(vdoc, "values") /\ vdoc.fields["values"].k = "list"
          /\ \E i \in 1..Len(vdoc.fields["values"].items) :
                vdoc.fields["values"].items[i].k = "str") => ~vres.ok

\* C7: with a JSON number for the bounded field and the rest of the document
\* valid, a ConfidenceInterval is accepted iff 0 <= level <= 1, an
\* AcquisitionParameters (alone or inside a ResearchProduct's MRI measurement)
\* iff 0 <= flipAngle <= 180, and a StatisticalTest iff 0 <= pValue <= 1.
C7_InclusiveBounds ==
    /\ (Returned("ConfidenceInterval") /\ HasKey(vdoc, "level")
          /\ vdoc.fields["level"].k = "num"
          /\ vdoc = ConfidenceIntervalDoc(vdoc.fields["level"])) =>
            (vres.ok <=> (0 <= vdoc.fields["level"].n /\ vdoc.fields["level"].n <= 1 * 100))
    /\ (Returned("AcquisitionParameters") /\ HasKey(vdoc, "flipAngle")
          /\ vdoc.fields["flipAngle"].k = "num"
          /\ vdoc = AcquisitionParametersDoc(vdoc.fields["flipAngle"])) =>
            (vres.ok <=> (0 <= vdoc.fields["flipAngle"].n /\ vdoc.fields["flipAngle"].n <= 180 * 100))
    /\ (Returned("StatisticalTest") /\ HasKey(vdoc, "pValue")
          /\ vdoc.fields["pValue"].k = "num"
          /\ vdoc = StatisticalTestDoc(vdoc.fields["pValue"])) =>
            (vres.ok <=> (0 <= vdoc.fields["pValue"].n /\ vdoc.fields["pValue"].n <= 1 * 100))
    /\ (Returned("ResearchProduct") /\ \E a \in AngleNumbers : vdoc = MRIDoc(a)) =>
            LET a == vdoc.fields["measurement"].fields["acquisitionParameters"].fields["flipAngle"]
            IN  vres.ok <=> (0 <= a.n /\ a.n <= 180 * 100)

\* C7 witness: a flip angle of exactly 180 inside a ResearchProduct, accepted.
C7_Witness ==
    /\ Returned("ResearchProduct")
    /\ vdoc = MRIDoc(Num(180 * 100))
    /\ vres.ok

\* C8: a VectorData with a valid unit and a list of numbers as values, alone
\* or as the data of an otherwise valid ResearchProduct, is accepted iff the
\* list has at least one element.
C8_NonEmptyValues ==
    /\ (Returned("VectorData") /\ HasKey(vdoc, "values") /\ HasKey(vdoc, "unit")
          /\ vdoc.fields["values"] \in {Lst(q) : q \in SeqsUpTo({Num(100), Num(250)}, MaxValues)}
          /\ vdoc.fields["unit"] \in {UnitDoc, Str("http://qudt.org/vocab/unit/MilliSEC")}) =>
            (vres.ok <=> Len(vdoc.fields["values"].items) >= 1)
    /\ (Returned("ResearchProduct") /\ HasKey(vdoc, "data")
          /\ ValidWithout("ResearchProduct", vdoc, "data")
          /\ vdoc.fields["data"].k = "obj"
          /\ HasKey(vdoc.fields["data"], "values") /\ HasKey(vdoc.fields["data"], "unit")
          /\ vdoc.fields["data"].fields["values"] \in {Lst(q) : q \in SeqsUpTo({Num(100), Num(250)}, MaxValues)}
          /\ vdoc.fields["data"].fields["unit"] \in {UnitDoc, Str("http://qudt.org/vocab/unit/MilliSEC")}) =>
            (vres.ok <=> Len(vdoc.fields["data"].fields["values"].items) >= 1)

\* C8 witness: a ResearchProduct whose data has values = [], rejected for
\* that list being too short and for nothing else.
C8_Witness ==
    /\ Returned("ResearchProduct")
    /\ vdoc = ResearchProductDoc(Str("ResearchProduct"), TimeseriesDoc,
                                 VectorDataDoc(Lst(<<>>), UnitDoc), Absent)
    /\ vres.errs = <<[loc |-> <<"data", "values">>, type |-> "too_short"]>>

\* C9: an AggregateStatistics document with an empty aggregates list is rejected.
C9_AggregatesNonEmpty ==
    (Returned("AggregateStatistics") /\ HasKey(vdoc, "aggregates")
       /\ vdoc.fields["aggregates"] = Lst(<<>>)) => ~vres.ok

\* C10: for each of the five entities, a document whose @type is present and
\* is not the entity's own literal is rejected, and every validated entity
\* has @type equal to its own kind's literal.
C10_DiscriminatorClosure ==
    (vpc = "returned" /\ vcls \in EntityKinds) =>
        /\ (HasKey(vdoc, "@type") /\ ~IsStr(vdoc.fields["@type"], vcls)) => ~vres.ok
        /\ vres.ok => vres.val.inst["type_"] = Str(vcls)

\* C10 witness: an API descriptor document, valid but for @type "Dataset",
\* rejected for that @type and for nothing else.
C10_Witness ==
    /\ Returned("ResearchAPIDescriptor")
    /\ HasKey(vdoc, "@type") /\ IsStr(vdoc.fields["@type"], "Dataset")
    /\ vres.errs = <<[loc |-> <<"@type">>, type |-> "literal_error"]>>

\* C11: for each of the five entities, a document that omits @context, or
\* omits @type, or omits @id is rejected.
C11_JsonLdKeysRequired ==
    (vpc = "returned" /\ vcls \in EntityKinds
       /\ (~HasKey(vdoc, "@context") \/ ~HasKey(vdoc, "@type") \/ ~HasKey(vdoc, "@id"))) => ~vres.ok

\* C12: for each of the five entities, a document that is valid with the fixed
\* context URI is accepted with another @context value iff that value is the
\* fixed URI or an inline context map (a JSON object).
C12_ContextForms ==
    (vpc = "returned" /\ vcls \in EntityKinds /\ HasKey(vdoc, "@context")
       /\ model_validate(vcls, ObjWith(vdoc, "@context", Str(ContextURI))).ok) =>
        (vres.ok <=> (IsStr(vdoc.fields["@context"], ContextURI)
                        \/ vdoc.fields["@context"].k = "obj"))

\* The measurement object with the keys of both variants spelled by wire alias.
MeasurementByAlias(m) ==
    ByAlias("RelaxometryMRIMeasurement", ByAlias("TimeseriesMeasurement", m))

\* C13: every class sets populate_by_name, and a document that spells fields
\* by their internal names (at the top level, or inside a ResearchProduct's
\* measurement) is accepted whenever the same document spelled by wire aliases
\* is, with the same validated entity.
C13_AliasBidirectional ==
    /\ \A c \in ClassNames : ClassOf(c).populate_by_name
    /\ (vpc = "returned" /\ vdoc.k = "obj") =>
          LET aliased == model_validate(vcls, ByAlias(vcls, vdoc))
          IN  aliased.ok => (vres.ok /\ vres.val = aliased.val)
    /\ (Returned("ResearchProduct") /\ HasKey(vdoc, "measurement")
          /\ vdoc.fields["measurement"].k = "obj") =>
          LET aliased == model_validate("ResearchProduct",
                             ObjWith(vdoc, "measurement", MeasurementByAlias(vdoc.fields["measurement"])))
          IN  aliased.ok => (vres.ok /\ vres.val = aliased.val)

\* C13 witness: a ResearchProduct whose measurement gives the measure as
\* specific_measure and not as specificMeasure, accepted with the entity the
\* specificMeasure spelling yields.
C13_Witness ==
    /\ Returned("ResearchProduct") /\ HasKey(vdoc, "measurement")
    /\ vdoc.fields["measurement"].k = "obj"
    /\ HasKey(vdoc.fields["measurement"], "specific_measure")
    /\ ~HasKey(vdoc.fields["measurement"], "specificMeasure")
    /\ vres.ok
    /\ vres.val = model_validate("ResearchProduct",
                      ObjWith(vdoc, "measurement", MeasurementByAlias(vdoc.fields["measurement"]))).val

\* The lines of the driver's output that report a file valid or invalid.
Verdicts == SelectSeq(dout, LAMBDA l : l.text \in {"Valid", "Invalid"})

\* A ResearchProduct document whose measurement gives the measure under the
\* internal name specific_measure and not under the alias specificMeasure.
OnlyInternalName(doc) ==
    /\ doc.k = "obj" /\ HasKey(doc, "measurement")
    /\ doc.fields["measurement"].k = "obj"
    /\ HasKey(doc.fields["measurement"], "specific_measure")
    /\ ~HasKey(doc.fields["measurement"], "specificMeasure")

\* C14 as claimed: the driver reports invalid every file whose document gives
\* the measure only as specific_measure.
C14_OnlyAliasAccepted ==
    \A i \in 1..Len(Verdicts) :
        (examples[Verdicts[i].file].kind = "json" /\ OnlyInternalName(examples[Verdicts[i].file].doc))
            => Verdicts[i].text = "Invalid"

\* C14 amended: the driver reports valid every file whose document gives the
\* measure only as specific_measure and is valid when it gives it as
\* specificMeasure.
C14_InternalNameAccepted ==
    \A i \in 1..Len(Verdicts) :
        LET doc == examples[Verdicts[i].file].doc
        IN  (examples[Verdicts[i].file].kind = "json" /\ OnlyInternalName(doc)
               /\ model_validate("ResearchProduct",
                      ObjWith(doc, "measurement", MeasurementByAlias(doc.fields["measurement"]))).ok)
                => Verdicts[i].text = "Valid"

\* C14 witness: the run is over and reported such a file valid.
C14_Witness ==
    /\ dpc = "done"
    /\ \E i \in 1..Len(Verdicts) :
          /\ examples[Verdicts[i].file] = JsonFile(InternalNameDoc)
          /\ Verdicts[i].text = "Valid"

\* C15: when main() has returned, its status is 0 iff rglob found at least
\* one .jsonld file and every file found holds a document that validates as
\* a ResearchProduct; otherwise it is 1.
EveryFileValid ==
    \A f \in rglob(examples) :
        examples[f].kind = "json" /\ model_validate("ResearchProduct", examples[f].doc).ok

C16_EveryFileProcessed ==
    /\ dpc \in {"idle", "start", "check", "load", "validate", "valid", "except", "summary", "done"}
    /\ \A i, j \in 1..Len(Verdicts) : i < j => Verdicts[i].file < Verdicts[j].file
    /\ dpc # "check" => valid_count + invalid_count = Len(Verdicts)
    /\ \A i \in 1..Len(dout) :
          dout[i].text = "Invalid" =>
              /\ i < Len(dout)
              /\ dout[i + 1].text = "Error" /\ dout[i + 1].file = dout[i].file
              /\ Len(dout[i + 1].errs) >= 1
    /\ (dpc = "done" /\ Len(example_files) > 0) =>
          /\ {Verdicts[i].file : i \in 1..Len(Verdicts)} = rglob(examples)
          /\ valid_count + invalid_count = Len(example_files)
          /\ Len(example_files) = Cardinality(rglob(examples))

\* C16 witness: the run is over; its first file was unreadable, a later one
\* was malformed JSON, another failed validation and another was valid, and
\* rglob had not returned them in sorted order.
C16_Witness ==
    /\ dpc = "done"
    /\ example_files # dsorted
    /\ examples[dsorted[1]].kind = "unreadable"
    /\ \E f \in rglob(examples) : examples[f].kind = "malformed"
    /\ valid_count + invalid_count = Len(example_files)
    /\ invalid_count >= 2

\* C17: a failure while one entity's schema is generated does not end the
\* run: main() is never stopped by it with entities after the failed one
\* still to be generated.
C17_FailureIsolated ==
    ~(gpc = "crashed" /\ gi < Len(Targets))

\* C18: at every point of the run, every schema file is absent, or holds its
\* previous complete content, or holds the complete new document of its
\* entity; it is never empty (truncated) and never holds part of a document.
C18_AllOrNothing ==
    \A p \in DOMAIN files :
        \/ files[p] = NoFile
        \/ files[p] = PreviousFile
        \/ /\ files[p].stage = "complete"
           /\ \E i \in 1..Len(Targets) :
                 /\ Targets[i].path = p
                 /\ files[p].doc = post_process_schema(model_json_schema(Targets[i].cls), Targets[i].id)

\* The top-level keys at which a document fails on its own: the valid
\* document of the class, given this document's value at that key alone (or
\* the key left out as this document leaves it out), is rejected.
FailingKeys(cls, doc) ==
    {a \in {ClassOf(cls).fields[i].alias : i \in 1..Len(ClassOf(cls).fields)} :
        ~model_validate(cls, WithKey(EntityDoc(cls), a,
                                     IF HasKey(doc, a) THEN doc.fields[a] ELSE Absent)).ok}

\* The top-level keys the reported errors point at.
ReportedKeys(res) == {res.errs[i].loc[1] : i \in 1..Len(res.errs)}

RequiredKeys == {"@context", "@id", "productType", "processingLevel", "participant", "measurement"}

\* C20: the minimal ResearchProduct document validates with no error; with
\* one of its top-level keys removed it is rejected iff the key is one of the
\* six required fields, and then the error is a single entry that names the
\* removed key as missing.
C20_RequiredFields ==
    /\ (Returned("ResearchProduct") /\ vdoc = EntityDoc("ResearchProduct")) =>
          (vres.ok /\ vres.errs = <<>>)
    /\ \A key \in DOMAIN EntityDoc("ResearchProduct").fields :
          (Returned("ResearchProduct") /\ vdoc = ObjWithout(EntityDoc("ResearchProduct"), key)) =>
              /\ ~vres.ok <=> key \in RequiredKeys
              /\ ~vres.ok => vres.errs = <<[loc |-> <<key>>, type |-> "missing"]>>

\* C20 witness: the minimal document without participant, rejected with
\* participant reported missing.
C20_Witness ==
    /\ Returned("ResearchProduct")
    /\ vdoc = ObjWithout(EntityDoc("ResearchProduct"), "participant")
    /\ vres.errs = <<[loc |-> <<"participant">>, type |-> "missing"]>>

\* The declared literal sets of the enumerated fields.
ProductTypes == {"processed_timeseries", "processed_scalar", "processed_image", "processed_spatial",
                 "processed_categorical", "processed_vector"}
ProcessingLevels == {"raw", "preprocessed", "analysis_ready", "aggregated"}
ParticipationStatuses == {"active", "completed", "withdrawn", "excluded"}
PrivacyLevels == {"anonymous", "pseudonymous", "identifiable"}

\* The value at the key is a string of the set.
InSet(doc, key, set) == doc.fields[key].k = "str" /\ doc.fields[key].s \in set

\* C21: a ResearchProduct whose productType is not one of the six literals,
\* or whose processingLevel is not one of the four, is rejected; a
\* Participant whose status or privacyLevel is a string outside its literal
\* set is rejected; and a document that is valid but for the value of one of
\* these fields is accepted when the value is in the set.
C21_ClosedEnumerations ==
    /\ (Returned("ResearchProduct") /\ HasKey(vdoc, "productType")
          /\ ~InSet(vdoc, "productType", ProductTypes)) => ~vres.ok
    /\ (Returned("ResearchProduct") /\ HasKey(vdoc, "processingLevel")
          /\ ~InSet(vdoc, "processingLevel", ProcessingLevels)) => ~vres.ok
    /\ (Returned("Participant") /\ HasKey(vdoc, "status") /\ vdoc.fields["status"].k = "str"
          /\ ~InSet(vdoc, "status", ParticipationStatuses)) => ~vres.ok
    /\ (Returned("Participant") /\ HasKey(vdoc, "privacyLevel") /\ vdoc.fields["privacyLevel"].k = "str"
          /\ ~InSet(vdoc, "privacyLevel", PrivacyLevels)) => ~vres.ok
    /\ \A key \in {"productType", "processingLevel"} :
          (Returned("ResearchProduct") /\ \E v \in EnumValues : vdoc = WithKey(EntityDoc("ResearchProduct"), key, v)) =>
              (vres.ok <=> InSet(vdoc, key, IF key = "productType" THEN ProductTypes ELSE ProcessingLevels))
    /\ \A key \in {"status", "privacyLevel"} :
          (Returned("Participant") /\ HasKey(vdoc, key) /\ vdoc.fields[key].k = "str"
             /\ \E v \in EnumValues : vdoc = WithKey(EntityDoc("Participant"), key, v)) =>
              (vres.ok <=> InSet(vdoc, key, IF key = "status" THEN ParticipationStatuses ELSE PrivacyLevels))

\* C21 witness: a Participant, valid but for privacyLevel "public", rejected
\* for that value and for nothing else.
C21_Witness ==
    /\ Returned("Participant")
    /\ vdoc = WithKey(EntityDoc("Participant"), "privacyLevel", Str("public"))
    /\ vres.errs = <<[loc |-> <<"privacyLevel">>, type |-> "literal_error"]>>

Generated(t) ==
    [stage |-> "complete",
     doc |-> post_process_schema(model_json_schema(Targets[t].cls), Targets[t].id),
     before |-> <<>>]

\* C23: of two overlapping generate_schema calls for distinct paths neither
\* fails, whether or not the directory was there and whoever made it, and
\* each call that has returned has left its own complete schema in its file.
C23_OverlappingCalls ==
    \A t \in TargetIds :
        /\ opc[t] # "crashed"
        /\ opc[t] \in {"open", "write", "close", "done"} => Targets[t].dir \in dirs
        /\ opc[t] = "done" => files[Targets[t].path] = Generated(t)

\* C23 witness: two calls for the same directory both have their file open
\* and half written at the same time.
C23_Witness ==
    \E t, u \in TargetIds :
        /\ t # u
        /\ Targets[t].dir = Targets[u].dir
        /\ opc[t] = "close" /\ opc[u] = "close"
        /\ files[Targets[t].path].stage = "partial"
        /\ files[Targets[u].path].stage = "partial"
        /\ oschema[t] # oschema[u]

\* C24: when the nine calls have been made one after another, in whatever
\* order, none has failed and every path holds the schema of its own call,
\* the same files with the same contents for every order.
C24_OrderIndependent ==
    /\ oserial => \A t \in TargetIds : opc[t] # "crashed"
    /\ (oserial /\ \A t \in TargetIds : opc[t] = "done") =>
           /\ DOMAIN files = SchemaPaths
           /\ \A t \in TargetIds : files[Targets[t].path] = Generated(t)

\* C24 witness: the nine calls have all returned, one after another, and
\* the nine files are there.
C24_Witness ==
    /\ oserial
    /\ \A t \in TargetIds : opc[t] = "done"
    /\ \A p \in SchemaPaths : files[p].stage = "complete"
    /\ dirs = SchemaDirs

\* A state of a run whose order is not that of main(): the last call of
\* main() has returned and its first has not been made.
C24_OutOfOrder ==
    /\ oserial
    /\ opc[Len(Targets)] = "done"
    /\ opc[1] = "ready"

\* A number outside [0, 1]
OutsideUnit(v) == v.k = "num" /\ (v.n < 0 \/ v.n > 100)

\* The p-values of an AggregateStatistics document: that of comparison.test
\* and those of the entries of comparison.postHoc
TestPValues(doc) ==
    IF HasKey(doc, "comparison") /\ HasKey(doc.fields["comparison"], "test")
          /\ HasKey(doc.fields["comparison"].fields["test"], "pValue")
    THEN {doc.fields["comparison"].fields["test"].fields["pValue"]}
    ELSE {}

PostHocPValues(doc) ==
    IF HasKey(doc, "comparison") /\ HasKey(doc.fields["comparison"], "postHoc")
    THEN {doc.fields["comparison"].fields["postHoc"].items[i].fields["pValue"] :
             i \in {j \in 1..Len(doc.fields["comparison"].fields["postHoc"].items) :
                      HasKey(doc.fields["comparison"].fields["postHoc"].items[j], "pValue")}}
    ELSE {}

C25_TestPValueBounded ==
    (Returned("AggregateStatistics") /\ \E v \in TestPValues(vdoc) : OutsideUnit(v)) => ~vres.ok

\* The accepted document: test p-value 0.05, post-hoc p-value 1.5
C25_Accepted ==
    /\ Returned("AggregateStatistics")
    /\ TestPValues(vdoc) = {Num(5)}
    /\ PostHocPValues(vdoc) = {Num(150)}
    /\ vres.ok

\* The success banner is among the printed lines
BannerPrinted == \E i \in 1..Len(gout) : gout[i] = "All schemas generated successfully!"

\* The lines main() has printed once its first k calls have returned
GeneratedLines(k) ==
    <<"Generating JSON Schemas from Pydantic models...">>
        \o [i \in 1..k |-> "Generated: " \o Targets[i].path]

\* The directory of the i-th call: three measurement schemas, the vector
\* data type, then the five entities
DirOfCall(i) ==
    IF i <= 3 THEN "schemas/v1/measurements/"
    ELSE IF i = 4 THEN "schemas/v1/data-types/" ELSE "schemas/v1/"

\* The calls are made in main()'s order: the calls that have returned are
\* the first k of the nine, and the call being made is the next one.
CallsInOrder ==
    /\ Len(Targets) = 9
    /\ \A i \in 1..Len(Targets) : Targets[i].dir = DirOfCall(i)
    /\ \E k \in 0..Len(Targets) :
          /\ gout \in {<<>>, GeneratedLines(k),
                       GeneratedLines(k) \o <<"All schemas generated successfully!",
                                               "Output directory: schemas/v1">>}
          /\ BannerPrinted => k = Len(Targets)
          /\ gpc \in {"project", "post", "mkdir", "open", "dump", "newline", "close"} => gi = k + 1
          /\ gpc = "print" => gi = k + 1

\* C26: main() makes its calls in the fixed order, the success banner is
\* printed only after all nine calls have returned, and once a call has
\* raised the banner is never printed.
C26_BannerOnlyAfterAll ==
    /\ [](CallsInOrder)
    /\ [](gpc = "crashed" => [](~BannerPrinted))

\* C26 witness: the run has ended with the banner after the nine lines of
\* the nine calls.
C26_Witness ==
    /\ gpc = "done"
    /\ gout = GeneratedLines(9) \o <<"All schemas generated successfully!",
                                     "Output directory: schemas/v1">>

\* A run in which the sixth call raised after five had returned: no banner
C26_RaisedMidway ==
    /\ gpc = "crashed"
    /\ gout = GeneratedLines(5)

\* C27: the nine calls of main() have pairwise distinct paths and pairwise
\* distinct $ids, every $id is under the schemas base URI, and the $id a
\* call passes is the $id its class declares, which the projection carries.
C27_NamespaceInjective ==
    /\ \A i, j \in 1..Len(Targets) :
          i # j => Targets[i].path # Targets[j].path /\ Targets[i].id # Targets[j].id
    /\ \A i \in 1..Len(Targets) :
          /\ StartsWith(Targets[i].id, "https://rap-spec.evidencepub.io/v1/schemas/")
          /\ Len(Targets[i].id) > Len("https://rap-spec.evidencepub.io/v1/schemas/")
    /\ gpc = "post" =>
          /\ HasKey(gschema, "$id")
          /\ gschema.fields["$id"] = Str(Targets[gi].id)

\* C27 witness: the collection class has been projected, the seventh call
\* of main(), and its schema carries the declared $id that is about to be
\* passed.
C27_Witness ==
    /\ gpc = "post"
    /\ Targets[gi].cls = "ResearchProductCollection"
    /\ gschema.fields["$id"] = Str("https://rap-spec.evidencepub.io/v1/schemas/collection.json")
    /\ Targets[gi].id = "https://rap-spec.evidencepub.io/v1/schemas/collection.json"

\* The top-level keys post_process_schema writes or removes
RewrittenKeys == {"$schema", "$id", "additionalProperties"}

\* C28: the returned schema has, apart from $schema, $id and
\* additionalProperties, the top-level keys the schema dict came with, each
\* with the value it came with, nested additionalProperties included; and it
\* has a top-level additionalProperties only if the schema has properties.
C28_PostProcessFrame ==
    ppc = "returned" =>
        /\ (DOMAIN pres.fields) \ RewrittenKeys = (DOMAIN pschema.fields) \ RewrittenKeys
        /\ \A key \in (DOMAIN pschema.fields) \ RewrittenKeys :
              pres.fields[key] = pschema.fields[key]
        /\ HasKey(pres, "additionalProperties") => HasKey(pschema, "properties")

\* C28 witness: a schema dict that came with additionalProperties at the top
\* and nested in its properties and $defs; the top-level one is gone and the
\* nested ones are as they came.
C28_Witness ==
    /\ ppc = "returned"
    /\ HasKey(pschema, "additionalProperties")
    /\ HasKey(pschema, "properties") /\ pschema.fields["properties"] = NestedOpen
    /\ HasKey(pschema, "$defs")
    /\ ~HasKey(pres, "additionalProperties")
    /\ pres.fields["properties"].fields["quality"].fields["additionalProperties"] = Bool(TRUE)
    /\ pres.fields["$defs"] = pschema.fields["$defs"]

=============================================================================
